---- MODULE Spec2Model ----
(***************************************************************************)
(* A model of the palantir server's actor fabric:                          *)
(*   - the room actor (room.rs), the room registry and the session         *)
(*     supervisor (session.rs): specifications SpecRoom, SpecSucc,         *)
(*     SpecMulti, SpecPlay, SpecJoin, SpecStop, SpecSuper, SpecFull, and   *)
(*     with fair scheduling of the tasks SpecExit and SpecClose;           *)
(*   - the clock offsets of a playback sync (playback.rs): SpecSync;       *)
(*   - the connection state machine (connection.rs): SpecConn, and its     *)
(*     receive path under the pings of a session: SpecPing;                *)
(*   - the frame format of a message channel (messages.rs): SpecChan;      *)
(*   - the access policy (api_access.rs): SpecPerm.                        *)
(* Every specification constrains all variables; the variables of the      *)
(* parts a specification does not exercise stay at their initial value.    *)
(***************************************************************************)
EXTENDS Integers, Sequences, FiniteSets, TLC

\* ------------------------------------------------------------ universe
Sessions == {"A", "B", "C"}
Rooms == {"R1", "R2"}
None == "none"
Roles == {"Host", "Guest", "Spectator"}
Passwords == {"", "x"}

\* the slots of a session's message channel, of a room's command channel and
\* of a room's request channel
MaxInbox == 32
MaxCmdQ == 8
MaxReqQ == 32

\* Bounds of the model.
\* the client messages other than create and join, and the connection
\* closures, over a run
MaxOps == 2
\* the create and join messages the clients send over a run
MaxEnter == 3
\* client messages and departures let in by a specification of a playback
MaxPlayOps == 4
\* the messages the peer of session A sends after its login
MaxPeerMsgs == 3
\* the pings session A sends
MaxPings == 2
\* the milliseconds the clock of the server runs
MaxClock == 2
\* the frames a message channel receives and sends
MaxFrames == 5
\* bits of a timestamp (u64 in the code) and of a clock offset (i64 in the code)
TsBits == 3
\* the requests a client sends to a room while its session leaves its inbox
\* unread: one more than the slots of the inbox
MaxFlood == 33
\* the entries of the configured api_keys list
MaxKeys == 2
\* the messages a peer sends on one connection
MaxMsgs == 3
\* the calls of Connection::close a session makes
MaxCalls == 2
\* the seconds the clock runs
MaxTime == 5
\* Connection::LOGIN_TIMEOUT in seconds
LOGIN_TIMEOUT == 3

\* ------------------------------------------------------------ variables
VARIABLES
    sLife,      \* session task: "run" | "exit" (select loop left) | "dropping" | "gone"
    sHost,      \* connection.permissions().host of the session
    sRoom,      \* Session.room: the RoomHandle, or NoRoom
    sPc,        \* where the session's handler is suspended
    sInbox,     \* the session's message_rx queue (message kinds)
    lock,       \* holder of the registry mutex, or None
    reg,        \* keys of RoomManager.room_controllers
    ctl,        \* rooms whose RoomController (strong senders) is still alive
    rTask,      \* room task: "none" | "alive" | "done"
    rRunning,   \* Room.running
    rPass,      \* Room.password
    rUsers,     \* Room.users: session id -> role
    rPlayback,  \* Room.playback
    rCmd,       \* command inbox of the room
    rReq,       \* request inbox of the room
    rRes,       \* value in the result watch: "ok" | "err"
    rResFrom,   \* issuer of the command/request whose result the watch holds
    rPub,       \* the watch has been written at least once
    rCloses,    \* reasons Room::close was called with
    ops,        \* inputs taken so far: `enter` create and join messages, `act` others
    last        \* what the most recent step put out: `by` the session or room that
                \* took it, `wire` the messages a session sent to its peer, `out` the
                \* deliveries a room made into session inboxes, `ret` whether the value
                \* send_request returned is the outcome of the caller's request
                \* ("own") or not ("stale")

VARIABLES
    config,     \* ApiAccessManager.config: api_policy and api_keys
    query,      \* a call of get_permissions: the key presented and the result
    conn,       \* a Connection and what it has put on its transport
    now,        \* the time in seconds since the Connection started to wait for login
    sync,       \* a call of Playback::handle_request with a Sync: its inputs and result
    link,       \* the authenticated Connection of session A and the ping state of A
    chan        \* a MessageChannel: its format and the frames it received and sent

roomVars == <<sLife, sHost, sRoom, sPc, sInbox, lock, reg, ctl, rTask,
              rRunning, rPass, rUsers, rPlayback, rCmd, rReq, rRes, rResFrom, rPub,
              rCloses, ops, last>>

edgeVars == <<config, query, conn, now, sync, link, chan>>

vars == <<roomVars, edgeVars>>

\* ------------------------------------------------------------ values
NoRoom == [id |-> None, role |-> None, unseen |-> FALSE]

RoomHandle(r, role, unseen) == [id |-> r, role |-> role, unseen |-> unseen]

NoPlayback == [present |-> FALSE, running |-> FALSE, source |-> FALSE,
               host |-> None, subscribers |-> {}]

Idle == [k |-> "idle", cont |-> None, room |-> None, pw |-> ""]

Pc(k, cont, room, pw) == [k |-> k, cont |-> cont, room |-> room, pw |-> pw]

\* UserPermissions::from(UserRole)
Permissions(role) ==
    [can_host      |-> role \in {"Host", "Guest"},
     can_set_roles |-> role = "Host",
     can_kick      |-> role = "Host",
     can_close     |-> role = "Host"]

\* RoomRequest; `from` is the issuing session (bookkeeping, not in the code)
Request(op, sid, role, preq, from) ==
    [op |-> op, sid |-> sid, role |-> role, preq |-> preq, from |-> from]

\* RoomCmd
Cmd(op, role, sid, reason) == [op |-> op, role |-> role, sid |-> sid, reason |-> reason]

\* SessionMsg
Msg(kind, reason, users, pb) == [kind |-> kind, reason |-> reason, users |-> users, pb |-> pb]

EmptyUsers == [s \in {} |-> "Host"]

\* no room::join message was answered
NoArg == [room |-> None, pw |-> None]

Out(by, wire, out, ret) ==
    IF wire = <<>> /\ out = <<>> /\ ret = None
    THEN [by |-> None, wire |-> <<>>, out |-> <<>>, ret |-> None, arg |-> NoArg]
    ELSE [by |-> by, wire |-> wire, out |-> out, ret |-> ret, arg |-> NoArg]

\* the step's output together with the room id and password of the room::join
\* message the step answered
Tried(o, r, pw) == [o EXCEPT !.arg = [room |-> r, pw |-> pw]]

RECURSIVE Perms(_)
Perms(S) ==
    IF S = {} THEN {<<>>}
    ELSE UNION {{<<x>> \o p : p \in Perms(S \ {x})} : x \in S}

\* ------------------------------------------------------------ room core
\* The Room struct's fields a handler touches, with `out` the deliveries it
\* made and `closes` the reasons it called close() with.  `life` is sLife,
\* `ord` the iteration order of the users HashMap.

RemoveUser(users, id) == [x \in DOMAIN users \ {id} |-> users[x]]

InsertUser(users, id, role) ==
    [x \in DOMAIN users \cup {id} |-> IF x = id THEN role ELSE users[x]]

UserIds(st, ord) == SelectSeq(ord, LAMBDA s : s \in DOMAIN st.users)

PlaybackInfo(pb) ==
    IF pb.present THEN [host |-> pb.host, source |-> pb.source]
    ELSE [host |-> None, source |-> FALSE]

GetState(st) == Msg("RoomState", None, st.users, PlaybackInfo(st.playback))

Deliver(st, id, msg) == [st EXCEPT !.out = Append(@, [to |-> id, msg |-> msg])]

\* SessionHandle::send_message: "ok" = Ok(true), "gone" = Ok(false) (the weak
\* sender no longer upgrades), "err" = Err (the send ran into the drop of the
\* session: the receiver closed under it).  The session's own sender is dropped
\* before its receiver, so after one Err the next upgrade fails.
SendResult(st, life, id) ==
    IF life[id] = "gone" \/ id \in st.failed THEN "gone"
    ELSE IF life[id] = "dropping" THEN "err"
    ELSE "ok"

Fail(st, id) == [st EXCEPT !.failed = @ \cup {id}]

\* Room::choose_new_host_id
ChooseNewHostId(st, ord) ==
    LET ids == UserIds(st, ord)
        pref == SelectSeq(ids, LAMBDA s : st.users[s] \in {"Host", "Guest"})
    IN  IF pref # <<>> THEN Head(pref)
        ELSE IF ids # <<>> THEN Head(ids)
        ELSE None

RECURSIVE Leave(_, _, _, _)
RECURSIVE SendUserMsg(_, _, _, _, _)
RECURSIVE BroadcastLoop(_, _, _, _, _, _)

BroadcastMsg(st, msg, life, ord) ==
    BroadcastLoop(st, UserIds(st, ord), msg, life, ord, TRUE)

RECURSIVE FreshLoop(_, _, _, _, _)
FreshLoop(st, ids, life, ord, ok) ==
    IF ids = <<>> THEN [st |-> st, ok |-> ok]
    ELSE LET r == SendUserMsg(st, Head(ids), GetState(st), life, ord)
         IN  FreshLoop(r.st, Tail(ids), life, ord, ok /\ r.ok)

\* the mutation of BroadcastState that takes the state anew for each recipient
BroadcastStateFresh(st, life, ord) == FreshLoop(st, UserIds(st, ord), life, ord, TRUE)

BroadcastState(st, life, ord) == BroadcastMsg(st, GetState(st), life, ord)

\* the mutation of RoomClose that tells no user
RoomCloseQuiet(st, reason, life, ord) ==
    [st |-> [st EXCEPT !.running = FALSE, !.closes = @ \cup {reason}], ok |-> TRUE]

RoomClose(st, reason, life, ord) ==
    BroadcastMsg([st EXCEPT !.running = FALSE, !.closes = @ \cup {reason}],
                 Msg("RoomClosed", reason, EmptyUsers, PlaybackInfo(NoPlayback)),
                 life, ord)

SetRole(st, role, id, life, ord) ==
    IF id \notin DOMAIN st.users THEN [st |-> st, ok |-> TRUE]
    ELSE BroadcastState([st EXCEPT !.users[id] = role], life, ord)

SendUserMsg(st, id, msg, life, ord) ==
    IF id \notin DOMAIN st.users THEN [st |-> st, ok |-> TRUE]
    ELSE IF SendResult(st, life, id) = "gone" THEN [st |-> Leave(st, id, life, ord), ok |-> TRUE]
    ELSE IF SendResult(st, life, id) = "err" THEN [st |-> Fail(st, id), ok |-> FALSE]
    ELSE [st |-> Deliver(st, id, msg), ok |-> TRUE]

BroadcastLoop(st, ids, msg, life, ord, ok) ==
    IF ids = <<>> THEN [st |-> st, ok |-> ok]
    ELSE LET r == SendUserMsg(st, Head(ids), msg, life, ord)
         IN  BroadcastLoop(r.st, Tail(ids), msg, life, ord, ok /\ r.ok)

\* Room::leave without the promotion of a new Host
LeaveKeepsRoles(st, id, life, ord) ==
    IF id \notin DOMAIN st.users THEN st
    ELSE
      LET s1 == [st EXCEPT !.users = RemoveUser(@, id)]
      IN  IF DOMAIN s1.users = {} THEN RoomClose(s1, "ClosedByHost", life, ord).st
          ELSE BroadcastState(s1, life, ord).st

\* Room::leave without the check for an empty users map
LeaveKeepsEmptyRoom(st, id, life, ord) ==
    IF id \notin DOMAIN st.users THEN st
    ELSE
      LET s1 == [st EXCEPT !.users = RemoveUser(@, id)]
      IN  IF \A u \in DOMAIN s1.users : s1.users[u] # "Host" THEN
            LET nh == ChooseNewHostId(s1, ord)
            IN  IF nh = None THEN s1
                ELSE
                  LET r  == SetRole(s1, "Host", nh, life, ord)
                      s2 == IF r.ok THEN r.st
                            ELSE RoomClose(r.st, "ServerError", life, ord).st
                  IN  BroadcastState(s2, life, ord).st
          ELSE BroadcastState(s1, life, ord).st

Leave(st, id, life, ord) ==
    IF id \notin DOMAIN st.users THEN st
    ELSE
      LET s1 == [st EXCEPT !.users = RemoveUser(@, id)]
      IN  IF DOMAIN s1.users = {} THEN RoomClose(s1, "ClosedByHost", life, ord).st
          ELSE IF \A u \in DOMAIN s1.users : s1.users[u] # "Host" THEN
            LET nh == ChooseNewHostId(s1, ord)
            IN  IF nh = None THEN RoomClose(s1, "ServerError", life, ord).st
                ELSE
                  LET r  == SetRole(s1, "Host", nh, life, ord)
                      s2 == IF r.ok THEN r.st
                            ELSE RoomClose(r.st, "ServerError", life, ord).st
                  IN  BroadcastState(s2, life, ord).st
          ELSE BroadcastState(s1, life, ord).st

\* the mutation of Join that lets every user in as Guest
JoinAsGuest(st, role, id, life, ord) ==
    IF id \in DOMAIN st.users THEN [st |-> st, ok |-> FALSE]
    ELSE BroadcastState([st EXCEPT !.users = InsertUser(@, id, "Guest")], life, ord)

Join(st, role, id, life, ord) ==
    IF id \in DOMAIN st.users THEN [st |-> st, ok |-> FALSE]
    ELSE BroadcastState([st EXCEPT !.users = InsertUser(@, id, role)], life, ord)

\* ------------------------------------------------------------ playback
SendDirect(st, id, msg, life) ==
    IF SendResult(st, life, id) = "ok" THEN Deliver(st, id, msg)
    ELSE IF SendResult(st, life, id) = "err" THEN Fail(st, id)
    ELSE st

PlainMsg(kind, reason) == Msg(kind, reason, EmptyUsers, PlaybackInfo(NoPlayback))

Subscribers(st, ord) == SelectSeq(ord, LAMBDA s : s \in st.playback.subscribers)

RECURSIVE StopLoop(_, _, _, _)
\* the loop over subscribers.values() in Playback::stop; `?` leaves at the first Err
StopLoop(st, ids, reason, life) ==
    IF ids = <<>> THEN [st |-> st, ok |-> TRUE]
    ELSE IF SendResult(st, life, Head(ids)) = "err" THEN [st |-> Fail(st, Head(ids)), ok |-> FALSE]
    ELSE StopLoop(SendDirect(st, Head(ids), PlainMsg("PlaybackDisconnected", reason), life),
                  Tail(ids), reason, life)

PlaybackStop(st, reason, life, ord) ==
    IF ~st.playback.running THEN [st |-> st, ok |-> TRUE]
    ELSE
      LET s1 == [st EXCEPT !.playback.source = FALSE]
          r  == StopLoop(s1, Subscribers(s1, ord), reason, life)
      IN  IF ~r.ok THEN r
          ELSE
            LET s2 == [r.st EXCEPT !.playback.subscribers = {}]
                h  == s2.playback.host
            IN  [st |-> SendDirect(s2, h, PlainMsg("PlaybackStopped", reason), life),
                 ok |-> SendResult(s2, life, h) # "err"]

RECURSIVE AnnounceLoop(_, _, _)
AnnounceLoop(st, ids, life) ==
    IF ids = <<>> THEN st
    ELSE AnnounceLoop(SendDirect(st, Head(ids),
                                 Msg("PlaybackAvailable", None, EmptyUsers,
                                     PlaybackInfo(st.playback)), life),
                      Tail(ids), life)

PlaybackStart(st, life, ord) ==
    IF st.playback.running THEN [st |-> st, ok |-> TRUE]
    ELSE
      LET s1 == [st EXCEPT !.playback.running = TRUE, !.playback.source = TRUE]
          h  == s1.playback.host
          hr == SendResult(s1, life, h)
      IN  IF hr = "err" THEN [st |-> Fail(s1, h), ok |-> FALSE]
          ELSE
            LET r == IF hr = "gone" THEN PlaybackStop(s1, "HostError", life, ord)
                     ELSE [st |-> SendDirect(s1, h, PlainMsg("PlaybackStarted", None), life),
                           ok |-> TRUE]
            IN  IF ~r.ok THEN r
                ELSE [st |-> AnnounceLoop(r.st, Subscribers(r.st, ord), life), ok |-> TRUE]

\* the mutation of PlaybackConnect that lets the host subscribe
PlaybackConnectAny(st, id, life) ==
    IF ~st.playback.running THEN [st |-> st, ok |-> FALSE]
    ELSE IF SendResult(st, life, id) = "err" THEN [st |-> Fail(st, id), ok |-> FALSE]
    ELSE [st |-> [SendDirect(st, id, PlainMsg("PlaybackConnected", None), life)
                    EXCEPT !.playback.subscribers = @ \cup {id}],
          ok |-> TRUE]

PlaybackConnect(st, id, life) ==
    IF ~st.playback.running THEN [st |-> st, ok |-> FALSE]
    ELSE IF id = st.playback.host THEN [st |-> st, ok |-> FALSE]
    ELSE IF SendResult(st, life, id) = "err" THEN [st |-> Fail(st, id), ok |-> FALSE]
    ELSE [st |-> [SendDirect(st, id, PlainMsg("PlaybackConnected", None), life)
                    EXCEPT !.playback.subscribers = @ \cup {id}],
          ok |-> TRUE]

PlaybackDisconnect(st, id, reason, life) ==
    IF id \in st.playback.subscribers THEN
        [st |-> SendDirect([st EXCEPT !.playback.subscribers = @ \ {id}], id,
                           PlainMsg("PlaybackDisconnected", reason), life),
         ok |-> SendResult(st, life, id) # "err"]
    ELSE [st |-> st, ok |-> TRUE]

\* Playback::handle_request (Start, Stop, Disconnect)
PlaybackHandleRequest(st, id, preq, life, ord) ==
    LET is_host == id = st.playback.host
    IN  IF ~is_host /\ id \notin st.playback.subscribers THEN [st |-> st, ok |-> FALSE]
        ELSE IF preq = "Start" THEN
             IF ~is_host THEN [st |-> st, ok |-> FALSE] ELSE PlaybackStart(st, life, ord)
        ELSE IF preq = "Disconnect" THEN PlaybackDisconnect(st, id, "User", life)
        ELSE IF ~is_host THEN [st |-> st, ok |-> FALSE]
             ELSE PlaybackStop(st, "StoppedByHost", life, ord)

\* Room::host_playback
HostPlayback(st, id, life, ord) ==
    LET s1 == IF st.playback.present
              THEN [PlaybackStop(st, "Superseded", life, ord).st EXCEPT !.playback = NoPlayback]
              ELSE st
    IN  IF id \notin DOMAIN s1.users THEN [st |-> s1, ok |-> FALSE]
        ELSE SendUserMsg([s1 EXCEPT !.playback = [NoPlayback EXCEPT !.present = TRUE,
                                                                     !.host = id]],
                         id, PlainMsg("PlaybackHosting", None), life, ord)

\* Room::connect_playback
ConnectPlayback(st, id, life) ==
    IF ~st.playback.present THEN [st |-> st, ok |-> FALSE]
    ELSE IF id \notin DOMAIN st.users THEN [st |-> st, ok |-> FALSE]
    ELSE PlaybackConnect(st, id, life)

\* Room::playback_request
PlaybackRequest(st, id, preq, life, ord) ==
    IF ~st.playback.present THEN [st |-> st, ok |-> FALSE]
    ELSE PlaybackHandleRequest(st, id, preq, life, ord)

\* ------------------------------------------------------------ playback sync
MaxTs == 2 ^ TsBits - 1

MinOff == -(2 ^ (TsBits - 1))

MaxOff == 2 ^ (TsBits - 1) - 1

Stamps == 0..MaxTs

Offsets == MinOff..MaxOff

\* PlaybackState; `playing` and `time` travel together
PlaybackState(timestamp, playing) ==
    [timestamp |-> timestamp, playing |-> playing, time |-> IF playing THEN 1 ELSE 0]

PlaybackStates == {PlaybackState(ts, playing) : ts \in Stamps, playing \in BOOLEAN}

\* the profiles the crate can be built with: arithmetic overflow panics with
\* overflow checks ("debug") and wraps without them ("release")
Builds == {"debug", "release"}

\* u64::saturating_add_signed
SaturatingAddSigned(ts, d) ==
    IF ts + d < 0 THEN 0 ELSE IF ts + d > MaxTs THEN MaxTs ELSE ts + d

\* the unary minus on a clock offset
Negate(off, build) ==
    IF off # MinOff THEN [panic |-> FALSE, v |-> -off]
    ELSE [panic |-> build = "debug", v |-> MinOff]

\* PlaybackState::normalize_offset
NormalizeOffset(state, source_offset, build) ==
    LET n == Negate(source_offset, build)
    IN  [panic |-> n.panic,
         state |-> [state EXCEPT !.timestamp = SaturatingAddSigned(@, n.v)]]

\* PlaybackState::incorporate_offset
IncorporateOffset(state, dest_offset) ==
    [state EXCEPT !.timestamp = SaturatingAddSigned(@, dest_offset)]

\* SessionHandle::time_offset: 0 once the session's counter is dropped
TimeOffset(life, off, s) == IF life[s] = "gone" THEN 0 ELSE off[s]

\* SessionMsg::PlaybackSync
SyncMsg(state) ==
    [kind |-> "PlaybackSync", reason |-> None, users |-> EmptyUsers,
     pb |-> PlaybackInfo(NoPlayback), state |-> state]

\* send_sync_msg, when the send goes through
SendSyncMsg(st, id, state, life, off) ==
    SendDirect(st, id, SyncMsg(IncorporateOffset(state, TimeOffset(life, off, id))), life)

RECURSIVE ForwardLoop(_, _, _, _, _, _, _)
\* the loop over subscribers.values() in Playback::sync; `errored` collects
\* the targets whose send returned Ok(false)
ForwardLoop(st, ids, id, state, life, off, errored) ==
    IF ids = <<>> THEN [st |-> st, ok |-> TRUE, errored |-> errored]
    ELSE IF Head(ids) = id THEN ForwardLoop(st, Tail(ids), id, state, life, off, errored)
    ELSE IF SendResult(st, life, Head(ids)) = "err"
         THEN [st |-> Fail(st, Head(ids)), ok |-> FALSE, errored |-> errored]
    ELSE ForwardLoop(SendSyncMsg(st, Head(ids), state, life, off), Tail(ids), id, state,
                     life, off,
                     IF SendResult(st, life, Head(ids)) = "gone"
                     THEN Append(errored, Head(ids)) ELSE errored)

RECURSIVE DisconnectLoop(_, _, _)
\* the loop over errored_subscribers in Playback::sync
DisconnectLoop(st, ids, life) ==
    IF ids = <<>> THEN [st |-> st, ok |-> TRUE]
    ELSE LET r == PlaybackDisconnect(st, Head(ids), "SubscriberError", life)
         IN  IF ~r.ok THEN r ELSE DisconnectLoop(r.st, Tail(ids), life)

\* the mutation of PlaybackSync that also forwards to the reporter
SyncToAll(st, id, state, life, ord, off, build) ==
    LET f == ForwardLoop(st, Subscribers(st, ord), None, state, life, off, <<>>)
    IN  [st |-> f.st, ok |-> f.ok, panic |-> FALSE]

\* Playback::sync
PlaybackSync(st, id, state, life, ord, off, build) ==
    LET host == st.playback.host
        n == IF id = host \/ id \in st.playback.subscribers
             THEN NormalizeOffset(state, TimeOffset(life, off, id), build)
             ELSE [panic |-> FALSE, state |-> state]
        hr == SendResult(st, life, host)
    IN  IF n.panic THEN [st |-> st, ok |-> FALSE, panic |-> TRUE]
        ELSE IF id # host /\ hr = "err" THEN [st |-> Fail(st, host), ok |-> FALSE, panic |-> FALSE]
        ELSE IF id # host /\ hr = "gone" THEN
             LET r == PlaybackStop(st, "StoppedByHost", life, ord)
             IN  [st |-> r.st, ok |-> r.ok, panic |-> FALSE]
        ELSE
             LET s1 == IF id # host THEN SendSyncMsg(st, host, n.state, life, off) ELSE st
                 f  == ForwardLoop(s1, Subscribers(s1, ord), id, n.state, life, off, <<>>)
             IN  IF ~f.ok THEN [st |-> f.st, ok |-> FALSE, panic |-> FALSE]
                 ELSE LET d == DisconnectLoop(f.st, f.errored, life)
                      IN  [st |-> d.st, ok |-> d.ok, panic |-> FALSE]

\* Room::playback_request and Playback::handle_request for a Sync
PlaybackSyncRequest(st, id, state, life, ord, off, build) ==
    IF ~st.playback.present THEN [st |-> st, ok |-> FALSE, panic |-> FALSE]
    ELSE IF id # st.playback.host /\ id \notin st.playback.subscribers
         THEN [st |-> st, ok |-> FALSE, panic |-> FALSE]
    ELSE PlaybackSync(st, id, state, life, ord, off, build)

\* a room of A, B and C in which A hosts a started playback
SyncRoom(subs) ==
    [users |-> [s \in Sessions |-> IF s = "A" THEN "Host" ELSE "Guest"],
     running |-> TRUE,
     playback |-> [present |-> TRUE, running |-> TRUE, source |-> TRUE, host |-> "A",
                   subscribers |-> subs],
     out |-> <<>>, closes |-> {}, failed |-> {}]

\* the sessions run, or one of them has gone or is being dropped
SyncLives ==
    {[s \in Sessions |-> "run"]}
    \cup {[s \in Sessions |-> IF s = "B" THEN l ELSE "run"] : l \in {"gone", "dropping"}}
    \cup {[s \in Sessions |-> IF s = "A" THEN "gone" ELSE "run"]}

NoSync ==
    [asked |-> FALSE, subscribers |-> {}, id |-> None, state |-> PlaybackState(0, FALSE),
     off |-> [s \in Sessions |-> 0], life |-> [s \in Sessions |-> "run"],
     build |-> "release", out |-> <<>>, ok |-> TRUE, panic |-> FALSE,
     left |-> {}]

\* the room handles a Sync of session `id`
SyncAsk(subs, id, state, off, life, build) ==
    /\ ~sync.asked
    \* the offset of a session outside the playback is never read
    /\ \A s \in Sessions \ ({"A"} \cup subs) : off[s] = 0
    /\ \E ord \in Perms(subs) :
         LET r == PlaybackSyncRequest(SyncRoom(subs), id, state, life, ord, off, build)
         IN  sync' = [asked |-> TRUE, subscribers |-> subs, id |-> id, state |-> state,
                      off |-> off, life |-> life, build |-> build, out |-> r.st.out,
                      ok |-> r.ok, panic |-> r.panic,
                      left |-> r.st.playback.subscribers]
    /\ UNCHANGED <<config, query, conn, now, link, chan, roomVars>>

\* the result is looked at and forgotten
SyncForget ==
    /\ sync.asked
    /\ sync' = NoSync
    /\ UNCHANGED <<config, query, conn, now, link, chan, roomVars>>

\* ------------------------------------------------------------ room actor
Core(r) == [users |-> rUsers[r], running |-> rRunning[r], playback |-> rPlayback[r],
            out |-> <<>>, closes |-> {}, failed |-> {}]

\* the match in Room::handle_request
RequestResult(st, q, life, ord) ==
    IF q.op = "GetState" THEN BroadcastState(st, life, ord)
    ELSE IF q.op = "SetRole" THEN SetRole(st, q.role, q.sid, life, ord)
    ELSE IF q.op = "Leave" THEN [st |-> Leave(st, q.sid, life, ord), ok |-> TRUE]
    ELSE IF q.op = "PlaybackHost" THEN HostPlayback(st, q.sid, life, ord)
    ELSE IF q.op = "PlaybackConnect" THEN ConnectPlayback(st, q.sid, life)
    ELSE PlaybackRequest(st, q.sid, q.preq, life, ord)

\* the match in Room::handle_cmd
CmdResult(st, c, life, ord) ==
    IF c.op = "Join" THEN Join(st, c.role, c.sid, life, ord)
    ELSE RoomClose(st, c.reason, life, ord)

InboxMsg(m) == [kind |-> m.kind, reason |-> m.reason]

DeliveredTo(out, s) ==
    LET mine == SelectSeq(out, LAMBDA d : d.to = s)
    IN  [i \in 1..Len(mine) |-> InboxMsg(mine[i].msg)]

\* watch::Sender::send marks the value unseen for every receiver
Published(r) ==
    [s \in Sessions |-> IF sRoom[s].id = r THEN [sRoom[s] EXCEPT !.unseen = TRUE]
                        ELSE sRoom[s]]

\* One iteration of the loop in Room::run after the handler returned `res`
\* for a command or request issued by `from`: the state is stored, the result
\* is sent on the watch, and the loop (and the task, with its receivers) ends
\* when running is false.  `cmdq` and `reqq` are the inboxes left behind.
RoomStep(r, res, from, cmdq, reqq) ==
    /\ \A s \in Sessions : Len(sInbox[s]) + Len(DeliveredTo(res.st.out, s)) <= MaxInbox
    /\ sInbox' = [s \in Sessions |-> sInbox[s] \o DeliveredTo(res.st.out, s)]
    /\ rUsers' = [rUsers EXCEPT ![r] = res.st.users]
    /\ rRunning' = [rRunning EXCEPT ![r] = res.st.running]
    /\ rPlayback' = [rPlayback EXCEPT ![r] = res.st.playback]
    /\ rCloses' = [rCloses EXCEPT ![r] = @ \cup res.st.closes]
    /\ rRes' = [rRes EXCEPT ![r] = IF res.ok THEN "ok" ELSE "err"]
    /\ rResFrom' = [rResFrom EXCEPT ![r] = from]
    /\ rPub' = [rPub EXCEPT ![r] = TRUE]
    /\ sRoom' = Published(r)
    /\ rTask' = [rTask EXCEPT ![r] = IF res.st.running THEN "alive" ELSE "done"]
    /\ rCmd' = [rCmd EXCEPT ![r] = IF res.st.running THEN cmdq ELSE <<>>]
    /\ rReq' = [rReq EXCEPT ![r] = IF res.st.running THEN reqq ELSE <<>>]
    /\ sLife' = [s \in Sessions |-> IF s \in res.st.failed THEN "gone" ELSE sLife[s]]
    /\ last' = Out(r, <<>>, res.st.out, None)
    /\ UNCHANGED <<sHost, sPc, lock, reg, ctl, rPass>>

\* the orders in which a handler of room r may meet the sessions it iterates
\* over (the users and the subscribers) when it also touches session `sid`
Orders(r, sid) ==
    Perms(DOMAIN rUsers[r] \cup rPlayback[r].subscribers \cup ({sid} \cap Sessions))

RoomHandleCmd(r) ==
    /\ rTask[r] = "alive"
    /\ rCmd[r] # <<>>
    /\ \E ord \in Orders(r, Head(rCmd[r]).sid) :
         RoomStep(r, CmdResult(Core(r), Head(rCmd[r]), sLife, ord), "cmd",
                  Tail(rCmd[r]), rReq[r])

RoomHandleRequest(r) ==
    /\ rTask[r] = "alive"
    /\ rReq[r] # <<>>
    /\ \E ord \in Orders(r, Head(rReq[r]).sid) :
         RoomStep(r, RequestResult(Core(r), Head(rReq[r]), sLife, ord),
                  Head(rReq[r]).from, rCmd[r], Tail(rReq[r]))

\* ------------------------------------------------------------ session
roomSide == <<rTask, rRunning, rPass, rUsers, rPlayback, rCmd, rRes, rResFrom, rPub,
              rCloses>>

\* Connection::send from a session: nothing reaches the peer once the
\* connection is closed (the session has left its select loop).
Sent(s, msgs) == Out(s, IF sLife[s] = "run" THEN msgs ELSE <<>>, <<>>, None)

Returned(s, msgs, origin) == Out(s, IF sLife[s] = "run" THEN msgs ELSE <<>>, <<>>, origin)

\* a message on the wire: its name and, where it has one, its reason
W(m, reason) == [m |-> m, reason |-> reason]

ClientError == W("connection::client_error", None)

\* send_error with one of join_room's texts
IncorrectPassword == W("connection::client_error", "Incorrect password")

RoomDoesNotExist == W("connection::client_error", "Room does not exist")

\* send_error with create_room's text
NotPermittedToHost ==
    W("connection::client_error", "Your account is not permitted to host rooms")

\* where a handler continues once its leave_room / request returned Ok
After(cont, room, pw) ==
    IF cont \in {"create", "join"} THEN Pc("lock", cont, room, pw)
    ELSE IF cont = "exit" THEN Pc("drop", None, None, "")
    ELSE Idle

\* where the session is once its handler returned an error
Failed(cont) == IF cont = "exit" THEN Pc("drop", None, None, "") ELSE Idle

LeaveAck(cont) == IF cont = "req" THEN <<>> ELSE <<W("room::leave_ack", None)>>

\* Session::send_room_msg up to the await on the result watch
\* (RoomHandle::send_request, lines 187-190); constrains sRoom, sPc, rReq, last.
SendRoomMsg(s, q, cont, room, pw) ==
    LET r == sRoom[s].id
    IN  IF r \notin ctl THEN
            \* the weak request sender no longer upgrades: Ok(false)
            /\ sRoom' = [sRoom EXCEPT ![s] = NoRoom]
            /\ sPc' = [sPc EXCEPT ![s] = After(cont, room, pw)]
            /\ last' = Sent(s, IF cont = "exit" THEN <<>>
                               ELSE <<W("room::disconnected", "ServerError")>> \o LeaveAck(cont))
            /\ UNCHANGED rReq
        ELSE IF rTask[r] = "done" THEN
            \* the room dropped its receiver: send fails
            /\ sPc' = [sPc EXCEPT ![s] = Failed(cont)]
            /\ last' = Sent(s, IF cont = "exit" THEN <<>> ELSE <<ClientError>>)
            /\ UNCHANGED <<sRoom, rReq>>
        ELSE
            /\ Len(rReq[r]) < MaxReqQ
            /\ rReq' = [rReq EXCEPT ![r] = Append(@, q)]
            /\ sPc' = [sPc EXCEPT ![s] = Pc("wait", cont, room, pw)]
            /\ last' = Sent(s, <<>>)
            /\ UNCHANGED sRoom

\* Session::leave_room as the first step of a handler
LeaveRoomFirst(s, cont, room, pw) ==
    IF sRoom[s] = NoRoom THEN
        /\ sPc' = [sPc EXCEPT ![s] = After(cont, room, pw)]
        /\ last' = Sent(s, <<>>)
        /\ UNCHANGED <<sRoom, rReq>>
    ELSE SendRoomMsg(s, Request("Leave", s, None, None, s), cont, room, pw)

Ready(s) == sLife[s] = "run" /\ sPc[s] = Idle

\* the outcome is the caller's own when the room has handled every request of
\* the caller and the watch holds the result of one of them
Origin(s, r) ==
    IF rResFrom[r] = s /\ \A i \in 1..Len(rReq[r]) : rReq[r][i].from # s
    THEN "own" ELSE "stale"

\* RoomHandle::send_request, lines 191-197: result_rx.changed() and the read
AwaitResult(s) ==
    LET r == sRoom[s].id
        pc == sPc[s]
        seen == [sRoom[s] EXCEPT !.unseen = FALSE]
    IN  /\ pc.k = "wait"
        /\ IF sRoom[s].unseen THEN
              /\ IF rRes[r] = "err" THEN
                    /\ sRoom' = [sRoom EXCEPT ![s] = seen]
                    /\ sPc' = [sPc EXCEPT ![s] = Failed(pc.cont)]
                    /\ last' = Returned(s, IF pc.cont = "exit" THEN <<>> ELSE <<ClientError>>,
                                         Origin(s, r))
                 ELSE
                    /\ sRoom' = [sRoom EXCEPT ![s] = IF pc.cont = "req" THEN seen ELSE NoRoom]
                    /\ sPc' = [sPc EXCEPT ![s] = After(pc.cont, pc.room, pc.pw)]
                    /\ last' = Returned(s, LeaveAck(pc.cont), Origin(s, r))
           ELSE
              \* nothing unseen: changed() fails once the room dropped the sender
              /\ rTask[r] = "done"
              /\ sPc' = [sPc EXCEPT ![s] = Failed(pc.cont)]
              /\ last' = Sent(s, IF pc.cont = "exit" THEN <<>> ELSE <<ClientError>>)
              /\ UNCHANGED sRoom
        /\ UNCHANGED <<sLife, sHost, sInbox, lock, reg, ctl, roomSide, rReq>>

\* a handler that fails before it touches anything: the error goes to the peer
Reject(s) ==
    /\ last' = Sent(s, <<ClientError>>)
    /\ UNCHANGED <<sLife, sHost, sRoom, sPc, sInbox, lock, reg, ctl, roomSide, rReq>>

\* a handler that returns Ok(()) without doing anything
Ignore(s) ==
    /\ last' = Sent(s, <<>>)
    /\ UNCHANGED <<sLife, sHost, sRoom, sPc, sInbox, lock, reg, ctl, roomSide, rReq>>

sessFrame == <<sLife, sHost, sInbox, lock, reg, ctl, roomSide>>

RoomOrder == <<"R1", "R2">>

\* the id Room::new mints: an id no room has had
FreshRooms(RR) == SelectSeq(RoomOrder, LAMBDA r : r \in RR /\ rTask[r] = "none")

Creating == {s \in Sessions : sPc[s].cont = "create"}

\* Session::create_room from the registry lock on: RoomManager::create_room
\* (Room::create spawns the actor, RoomController::join queues the Join) and the ack
CreateBody(s, pw, RR) ==
    /\ lock = None
    /\ FreshRooms(RR) # <<>>
    /\ LET r == Head(FreshRooms(RR))
       IN  /\ rTask' = [rTask EXCEPT ![r] = "alive"]
           /\ rRunning' = [rRunning EXCEPT ![r] = TRUE]
           /\ rPass' = [rPass EXCEPT ![r] = pw]
           /\ rCmd' = [rCmd EXCEPT ![r] = <<Cmd("Join", "Host", s, None)>>]
           /\ reg' = reg \cup {r}
           /\ ctl' = ctl \cup {r}
           /\ sRoom' = [sRoom EXCEPT ![s] = RoomHandle(r, "Host", FALSE)]
    /\ sPc' = [sPc EXCEPT ![s] = Idle]
    /\ last' = Sent(s, <<W("room::create_ack", None)>>)
    /\ UNCHANGED <<sLife, sHost, sInbox, lock, rUsers, rPlayback, rReq, rRes,
                   rResFrom, rPub, rCloses>>

DoCreate(s, RR) ==
    /\ sPc[s].k = "lock" /\ sPc[s].cont = "create"
    /\ CreateBody(s, sPc[s].pw, RR)

\* RoomManager::get_room_password: None for an id the registry does not hold
GetRoomPassword(r) == IF r \in reg THEN rPass[r] ELSE None

\* Session::join_room from the registry lock on: the password check,
\* RoomManager::join_room and the ack
JoinBody(s, r, pw) ==
    /\ lock = None
    /\ sPc' = [sPc EXCEPT ![s] = Idle]
    /\ IF pw # GetRoomPassword(r) THEN
          \* Some(password) != get_room_password(room_id)
          /\ last' = Tried(Sent(s, <<IncorrectPassword>>), r, pw)
          /\ UNCHANGED <<sRoom, rCmd>>
       ELSE IF r \notin reg THEN
          \* RoomManager::join_room returns None
          /\ last' = Tried(Sent(s, <<RoomDoesNotExist>>), r, pw)
          /\ UNCHANGED <<sRoom, rCmd>>
       ELSE IF rTask[r] = "done" THEN
          \* command_tx.send fails: the room dropped its receiver
          /\ last' = Tried(Sent(s, <<ClientError>>), r, pw)
          /\ UNCHANGED <<sRoom, rCmd>>
       ELSE
          /\ Len(rCmd[r]) < MaxCmdQ
          /\ rCmd' = [rCmd EXCEPT ![r] = Append(@, Cmd("Join", "Guest", s, None))]
          /\ sRoom' = [sRoom EXCEPT ![s] = RoomHandle(r, "Guest", rPub[r])]
          /\ last' = Tried(Sent(s, <<W("room::join_ack", None)>>), r, pw)
    /\ UNCHANGED <<sLife, sHost, sInbox, lock, reg, ctl, rTask, rRunning, rPass,
                   rUsers, rPlayback, rReq, rRes, rResFrom, rPub, rCloses>>

DoJoin(s) ==
    /\ sPc[s].k = "lock" /\ sPc[s].cont = "join"
    /\ JoinBody(s, sPc[s].room, sPc[s].pw)

\* create_room's check of connection.permissions().host fails: the error goes
\* to the peer
RejectCreate(s) ==
    /\ last' = Sent(s, <<NotPermittedToHost>>)
    /\ UNCHANGED <<sLife, sHost, sRoom, sPc, sInbox, lock, reg, ctl, roomSide, rReq>>

\* the mutation of ClientCreateRoom without the check of the host permission
ClientCreateRoomAny(s, pw, RR) ==
    /\ Ready(s)
    /\ IF sRoom[s] = NoRoom /\ lock = None THEN CreateBody(s, pw, RR)
       ELSE LeaveRoomFirst(s, "create", None, pw) /\ UNCHANGED sessFrame

\* Session::create_room; it runs through when the session has no room to
\* leave and the registry lock is free
ClientCreateRoom(s, pw, RR) ==
    /\ Ready(s)
    /\ IF ~sHost[s] THEN RejectCreate(s)
       ELSE IF sRoom[s] = NoRoom /\ lock = None THEN CreateBody(s, pw, RR)
       ELSE LeaveRoomFirst(s, "create", None, pw) /\ UNCHANGED sessFrame

\* Session::join_room; it runs through when the session has no room to leave
\* and the registry lock is free
ClientJoinRoom(s, r, pw) ==
    /\ Ready(s)
    /\ IF sRoom[s] = NoRoom /\ lock = None THEN JoinBody(s, r, pw)
       ELSE LeaveRoomFirst(s, "join", r, pw) /\ UNCHANGED sessFrame

\* Session::leave_room for a room::leave message
ClientLeaveRoom(s) ==
    /\ Ready(s)
    /\ IF sRoom[s] = NoRoom THEN Ignore(s)
       ELSE /\ SendRoomMsg(s, Request("Leave", s, None, None, s), "leave", None, "")
            /\ UNCHANGED sessFrame

\* Session::request_state
ClientRequestState(s) ==
    /\ Ready(s)
    /\ IF sRoom[s] = NoRoom THEN Reject(s)
       ELSE /\ SendRoomMsg(s, Request("GetState", None, None, None, s), "req", None, "")
            /\ UNCHANGED sessFrame

\* Session::set_user_role
ClientSetUserRole(s, target, role) ==
    /\ Ready(s)
    /\ IF sRoom[s] = NoRoom THEN Ignore(s)
       ELSE IF ~Permissions(sRoom[s].role).can_set_roles THEN Reject(s)
       ELSE /\ SendRoomMsg(s, Request("SetRole", target, role, None, s), "req", None, "")
            /\ UNCHANGED sessFrame

\* Session::kick
ClientKick(s, target) ==
    /\ Ready(s)
    /\ IF sRoom[s] = NoRoom THEN Ignore(s)
       ELSE IF ~Permissions(sRoom[s].role).can_kick THEN Reject(s)
       ELSE /\ SendRoomMsg(s, Request("Leave", target, None, None, s), "req", None, "")
            /\ UNCHANGED sessFrame

\* Session::host_playback
ClientHostPlayback(s) ==
    /\ Ready(s)
    /\ IF sRoom[s] = NoRoom THEN Reject(s)
       ELSE IF ~Permissions(sRoom[s].role).can_host THEN Reject(s)
       ELSE /\ SendRoomMsg(s, Request("PlaybackHost", s, None, None, s), "req", None, "")
            /\ UNCHANGED sessFrame

\* Session::connect_playback
ClientConnectPlayback(s) ==
    /\ Ready(s)
    /\ IF sRoom[s] = NoRoom THEN Reject(s)
       ELSE IF ~Permissions(sRoom[s].role).can_host THEN Reject(s)
       ELSE /\ SendRoomMsg(s, Request("PlaybackConnect", s, None, None, s), "req", None, "")
            /\ UNCHANGED sessFrame

\* Session::playback_request for request_start, request_stop, request_disconnect
ClientPlayback(s, preq) ==
    /\ Ready(s)
    /\ IF sRoom[s] = NoRoom THEN Reject(s)
       ELSE /\ SendRoomMsg(s, Request("Playback", s, None, preq, s), "req", None, "")
            /\ UNCHANGED sessFrame

\* Session::close_room up to the await on the room's task
\* (RoomManager::close_room, RoomController::close line 170)
ClientCloseRoom(s) ==
    LET r == sRoom[s].id
    IN  /\ Ready(s)
        /\ IF sRoom[s] = NoRoom THEN Ignore(s)
           ELSE IF ~Permissions(sRoom[s].role).can_close THEN Reject(s)
           ELSE
             /\ lock = None
             /\ IF r \notin reg THEN
                   /\ sRoom' = [sRoom EXCEPT ![s] = NoRoom]
                   /\ last' = Sent(s, <<W("room::close_ack", None)>>)
                   /\ UNCHANGED <<sPc, lock, reg, ctl, rCmd>>
                ELSE IF rTask[r] = "done" THEN
                   \* the Close cannot be queued: the controller is dropped
                   /\ reg' = reg \ {r}
                   /\ ctl' = ctl \ {r}
                   /\ last' = Sent(s, <<ClientError>>)
                   /\ UNCHANGED <<sRoom, sPc, lock, rCmd>>
                ELSE
                   /\ Len(rCmd[r]) < MaxCmdQ
                   /\ reg' = reg \ {r}
                   /\ rCmd' = [rCmd EXCEPT ![r] = Append(@, Cmd("Close", None, None,
                                                               "ClosedByHost"))]
                   /\ lock' = s
                   /\ sPc' = [sPc EXCEPT ![s] = Pc("closewait", None, r, "")]
                   /\ last' = Sent(s, <<>>)
                   /\ UNCHANGED <<sRoom, ctl>>
             /\ UNCHANGED <<sLife, sHost, sInbox, rTask, rRunning, rPass, rUsers,
                            rPlayback, rReq, rRes, rResFrom, rPub, rCloses>>

\* Session::close_room once the room's task has completed
\* (RoomController::close line 171, Session::close_room lines 202-207)
CloseDone(s) ==
    /\ sPc[s].k = "closewait"
    /\ rTask[sPc[s].room] = "done"
    /\ ctl' = ctl \ {sPc[s].room}
    /\ lock' = None
    /\ sRoom' = [sRoom EXCEPT ![s] = NoRoom]
    /\ sPc' = [sPc EXCEPT ![s] = Idle]
    /\ last' = Sent(s, <<W("room::close_ack", None)>>)
    /\ UNCHANGED <<sLife, sHost, sInbox, reg, roomSide, rReq>>

\* the name on the wire of a SessionMsg
WireName(kind) ==
    CASE kind = "RoomState" -> "room::state"
      [] kind = "RoomClosed" -> "room::disconnected"
      [] kind = "PlaybackHosting" -> "playback::hosting"
      [] kind = "PlaybackAvailable" -> "playback::available"
      [] kind = "PlaybackStarted" -> "playback::started"
      [] kind = "PlaybackConnected" -> "playback::connected"
      [] kind = "PlaybackSync" -> "playback::sync"
      [] kind = "PlaybackStopped" -> "playback::stopped"
      [] kind = "PlaybackDisconnected" -> "playback::disconnected"

\* Session::handle_session_msg
HandleSessionMsg(s) ==
    /\ Ready(s)
    /\ sInbox[s] # <<>>
    /\ LET m == Head(sInbox[s])
       IN  /\ sRoom' = [sRoom EXCEPT ![s] = IF m.kind = "RoomClosed" THEN NoRoom ELSE @]
           /\ last' = Sent(s, <<W(WireName(m.kind), m.reason)>>)
    /\ sInbox' = [sInbox EXCEPT ![s] = Tail(@)]
    /\ UNCHANGED <<sLife, sHost, sPc, lock, reg, ctl, roomSide, rReq>>

\* Session::run: connection.recv() returned None, the select loop ends and
\* the session leaves its room
ConnClosed(s) ==
    /\ Ready(s)
    /\ sLife' = [sLife EXCEPT ![s] = "exit"]
    /\ LeaveRoomFirst(s, "exit", None, "")
    /\ UNCHANGED <<sHost, sInbox, lock, reg, ctl, roomSide>>

\* the Session is dropped: its strong sender first, its receiver after it
SessionDrop(s) ==
    /\ sPc[s].k = "drop"
    /\ sLife[s] = "exit"
    /\ sLife' = [sLife EXCEPT ![s] = "dropping"]
    /\ sInbox' = [sInbox EXCEPT ![s] = <<>>]
    /\ sRoom' = [sRoom EXCEPT ![s] = NoRoom]
    /\ last' = Sent(s, <<>>)
    /\ UNCHANGED <<sHost, sPc, lock, reg, ctl, roomSide, rReq>>

SessionGone(s) ==
    /\ sLife[s] = "dropping"
    /\ sLife' = [sLife EXCEPT ![s] = "gone"]
    /\ last' = Sent(s, <<>>)
    /\ UNCHANGED <<sHost, sRoom, sPc, sInbox, lock, reg, ctl, roomSide, rReq>>

\* ------------------------------------------------------------ api access
ApiKeyNames == {"k1", "k2"}

ApiPermissions(connect, host) == [connect |-> connect, host |-> host]

ApiKey(key, connect, host) == [key |-> key, permissions |-> ApiPermissions(connect, host)]

ApiKeys == {ApiKey(k, c, h) : k \in ApiKeyNames, c \in BOOLEAN, h \in BOOLEAN}

ApiAccessPolicy == [restrict_connect : BOOLEAN, restrict_host : BOOLEAN]

\* the api_keys lists of at most n entries
KeyLists(n) == UNION {[1..m -> ApiKeys] : m \in 0..n}

\* ApiAccessManager::get_permissions without the baseline: the grant of the
\* matched entry alone
KeyPermissionsOnly(cfg, key) ==
    LET found == SelectSeq(cfg.api_keys, LAMBDA k : k.key = key)
    IN  IF key = None \/ found = <<>> THEN ApiPermissions(FALSE, FALSE)
        ELSE Head(found).permissions

\* ApiAccessManager::get_permissions; `found` is api_keys.iter().find(..)
GetPermissions(cfg, key) ==
    LET default_perms == ApiPermissions(~cfg.api_policy.restrict_connect,
                                        ~cfg.api_policy.restrict_host)
        found == SelectSeq(cfg.api_keys, LAMBDA k : k.key = key)
    IN  IF key = None THEN default_perms
        ELSE IF found = <<>> THEN default_perms
        ELSE ApiPermissions(
               ~cfg.api_policy.restrict_connect \/ Head(found).permissions.connect,
               ~cfg.api_policy.restrict_host \/ Head(found).permissions.host)

NoQuery == [asked |-> FALSE, key |-> None, permissions |-> ApiPermissions(FALSE, FALSE)]

\* a caller asks for the permissions of `key`
Ask(key) ==
    /\ ~query.asked
    /\ query' = [asked |-> TRUE, key |-> key, permissions |-> GetPermissions(config, key)]
    /\ UNCHANGED <<config, conn, now, sync, link, chan, roomVars>>

\* the answer is looked at and forgotten
Forget ==
    /\ query.asked
    /\ query' = NoQuery
    /\ UNCHANGED <<config, conn, now, sync, link, chan, roomVars>>

\* ------------------------------------------------------------ connection
\* Connection::new, and Connection::init about to wait for the login message.
\* `phase` is "login" inside init, "auth" once init returned Ok and the Session
\* runs, "failed" once init returned Err, "ended" once Session::run returned,
\* "dropped" after the drop.  The counters record what went onto the transport.
ConnectionNew ==
    [phase |-> "login", open |-> TRUE, username |-> FALSE, api_key |-> None,
     permissions |-> ApiPermissions(FALSE, FALSE), session |-> FALSE,
     deadline |-> LOGIN_TIMEOUT, received |-> 0, login_acks |-> 0,
     client_errors |-> 0, closed_msgs |-> <<>>, transport_closes |-> 0,
     close_calls |-> 0, transport_failed |-> FALSE]

\* Connection::close_silent
CloseSilent(c) == [c EXCEPT !.open = FALSE, !.transport_closes = @ + 1]

\* Connection::close without the is_open check
CloseUnguarded(c, reason) ==
    CloseSilent([c EXCEPT !.closed_msgs = Append(@, reason), !.close_calls = @ + 1])

\* Connection::close
Close(c, reason) ==
    IF ~c.open THEN [c EXCEPT !.close_calls = @ + 1]
    ELSE CloseSilent([c EXCEPT !.closed_msgs = Append(@, reason), !.close_calls = @ + 1])

\* the login arm of Connection::init that acknowledges whatever the permissions
LoginAlwaysAcks(c, key, perms, sent) ==
    [c EXCEPT !.username = TRUE, !.api_key = key, !.permissions = perms,
              !.login_acks = @ + 1,
              !.phase = IF sent THEN "auth" ELSE "failed",
              !.session = sent]

\* the login arm of Connection::init, and app::start creating the Session when
\* init returned Ok; `sent` is whether the transport took the login ack
Login(c, key, perms, sent) ==
    LET c1 == [c EXCEPT !.username = TRUE, !.api_key = key, !.permissions = perms]
    IN  IF ~perms.connect
        THEN [Close(c1, "Unauthorized") EXCEPT !.phase = "failed"]
        ELSE [c1 EXCEPT !.login_acks = @ + 1,
                        !.phase = IF sent THEN "auth" ELSE "failed",
                        !.session = sent]

Receives == conn.open /\ conn.received < MaxMsgs

edgeFrame == <<config, query, sync, link, chan, roomVars>>

\* init receives a login message
RecvLogin(key, sent) ==
    /\ conn.phase = "login" /\ Receives
    /\ conn' = Login([conn EXCEPT !.received = @ + 1], key,
                     GetPermissions(config, key), sent)
    /\ UNCHANGED <<now, edgeFrame>>

\* init receives a message that is no login: send_error, and the loop starts
\* a new timeout(LOGIN_TIMEOUT, ..)
RecvOther ==
    /\ conn.phase = "login" /\ Receives
    /\ conn' = [conn EXCEPT !.received = @ + 1, !.client_errors = @ + 1,
                            !.deadline = now + LOGIN_TIMEOUT]
    /\ UNCHANGED <<now, edgeFrame>>

\* raw_recv receives a malformed message: send_error inside the same raw_recv
RecvMalformed ==
    /\ conn.phase \in {"login", "auth"} /\ Receives
    /\ conn' = [conn EXCEPT !.received = @ + 1, !.client_errors = @ + 1]
    /\ UNCHANGED <<now, edgeFrame>>

\* raw_recv when the stream yields a transport error: MessageChannel::recv
\* hands it on as Some(Err(..)), the arm of a malformed message takes it
\* (send_error, next turn of the loop); transport_failed records the failure
RecvTransportError ==
    /\ conn.phase \in {"login", "auth"} /\ Receives
    /\ conn' = [conn EXCEPT !.received = @ + 1, !.client_errors = @ + 1,
                            !.transport_failed = TRUE]
    /\ UNCHANGED <<now, edgeFrame>>

\* Connection::send when the transport refuses the frame: the error goes to
\* the caller with `?`, no field of the connection is assigned
SendTransportError ==
    /\ conn.phase = "auth" /\ conn.open /\ ~conn.transport_failed
    /\ conn' = [conn EXCEPT !.transport_failed = TRUE]
    /\ UNCHANGED <<now, edgeFrame>>

\* channel.recv() returns None, the peer closed: close_silent; init returns
\* Err, Session::run leaves its loop
RecvNone ==
    /\ conn.phase \in {"login", "auth"} /\ conn.open
    /\ conn' = [CloseSilent(conn) EXCEPT !.close_calls = @ + 1,
                   !.phase = IF conn.phase = "login" THEN "failed" ELSE "ended"]
    /\ UNCHANGED <<now, edgeFrame>>

\* the timeout around raw_recv in init elapses
LoginTimeout ==
    /\ conn.phase = "login"
    /\ now >= conn.deadline
    /\ conn' = [Close(conn, "Unauthorized") EXCEPT !.phase = "failed"]
    /\ UNCHANGED <<now, edgeFrame>>

\* a second passes; a timeout that is due fires first
Tick ==
    /\ now < MaxTime
    /\ conn.phase = "login" => now < conn.deadline
    /\ now' = now + 1
    /\ UNCHANGED <<conn, edgeFrame>>

\* the session calls Connection::close
CallClose(reason) ==
    /\ conn.phase = "auth"
    /\ conn.close_calls < MaxCalls
    /\ conn' = Close(conn, reason)
    /\ UNCHANGED <<now, edgeFrame>>

\* raw_recv on a closed connection returns None: Session::run returns
RecvClosed ==
    /\ conn.phase = "auth" /\ ~conn.open
    /\ conn' = [conn EXCEPT !.phase = "ended"]
    /\ UNCHANGED <<now, edgeFrame>>

\* impl Drop for Connection
ConnDrop ==
    /\ conn.phase \in {"failed", "ended"}
    /\ conn' = [(IF conn.open THEN Close(conn, "ServerError")
                 ELSE [conn EXCEPT !.close_calls = @ + 1]) EXCEPT !.phase = "dropped"]
    /\ UNCHANGED <<now, edgeFrame>>

\* ------------------------------------------------------------ message channel
\* the websocket frames a peer can send: Binary and Text with a payload that
\* deserializes or not, Close, and the others (Ping, Pong, Frame)
Frames ==
    {[kind |-> k, wellformed |-> w] : k \in {"Binary", "Text"}, w \in BOOLEAN}
    \cup {[kind |-> k, wellformed |-> FALSE] : k \in {"Close", "Other"}}

\* MessageChannel::new; `recent` is the kind of the last Binary or Text frame
\* received, `sent` the outbound frames with the value of `recent` at the send
MessageChannelNew ==
    [format |-> "Msgpack", recent |-> None, sent |-> <<>>, frames |-> 0, result |-> None]

\* the mutation of ChannelRecv that keeps the format on a malformed payload
ChannelRecvLazy(frame) ==
    [chan EXCEPT
       !.format = IF ~frame.wellformed THEN @
                  ELSE IF frame.kind = "Binary" THEN "Msgpack" ELSE "Json",
       !.recent = IF frame.kind \in {"Binary", "Text"} THEN frame.kind ELSE @,
       !.result = IF frame.kind = "Close" THEN "none"
                  ELSE IF frame.wellformed THEN "ok" ELSE "err",
       !.frames = @ + 1]

\* MessageChannel::recv on a frame of the stream
ChannelRecv(frame) ==
    [chan EXCEPT
       !.format = IF frame.kind = "Binary" THEN "Msgpack"
                  ELSE IF frame.kind = "Text" THEN "Json" ELSE @,
       !.recent = IF frame.kind \in {"Binary", "Text"} THEN frame.kind ELSE @,
       !.result = IF frame.kind = "Close" THEN "none"
                  ELSE IF frame.wellformed THEN "ok" ELSE "err",
       !.frames = @ + 1]

\* MessageChannel::send on the channel c
ChannelSend(c) ==
    [c EXCEPT
       !.sent = Append(@, [frame |-> IF c.format = "Msgpack" THEN "Binary" ELSE "Text",
                           after |-> c.recent]),
       !.frames = @ + 1]

chanFrame == <<config, query, conn, now, sync, link, roomVars>>

FrameReceived(frame) ==
    /\ chan.frames < MaxFrames
    /\ chan' = ChannelRecv(frame)
    /\ UNCHANGED chanFrame

\* the stream ends or fails: recv returns None or Some(Err)
StreamError(result) ==
    /\ chan.frames < MaxFrames
    /\ chan' = [chan EXCEPT !.result = result, !.frames = @ + 1]
    /\ UNCHANGED chanFrame

MessageSent ==
    /\ chan.frames < MaxFrames
    /\ chan' = ChannelSend(chan)
    /\ UNCHANGED chanFrame

\* one turn of the loop of Connection::raw_recv on a frame that gives no
\* message: channel.recv() returns None (close_silent, raw_recv returns None)
\* or Some(Err(..)) (send_error, and the loop goes on)
RawRecvFrame(frame) ==
    /\ conn.phase \in {"login", "auth"} /\ conn.open
    /\ ~frame.wellformed
    /\ chan.frames + 1 < MaxFrames
    /\ LET c == ChannelRecv(frame)
       IN  IF c.result = "none" THEN
              /\ chan' = c
              /\ conn' = [CloseSilent(conn) EXCEPT !.close_calls = @ + 1,
                             !.phase = IF conn.phase = "login" THEN "failed" ELSE "ended"]
           ELSE
              /\ chan' = ChannelSend(c)
              /\ conn' = [conn EXCEPT !.client_errors = @ + 1]
    /\ UNCHANGED <<config, query, now, sync, link, roomVars>>

\* ------------------------------------------------------------ ping and recv
\* a Message of the peer: `n` is its place in the order of arrival
PeerMsg(n, kind, timestamp) == [n |-> n, kind |-> kind, timestamp |-> timestamp]

\* the kinds of message a peer sends: a ping, a pong, a keepalive, a request
\* ("data"), or the end of the stream ("eof")
PeerKinds == {"ping", "pong", "keepalive", "data", "eof"}

\* the timestamps a peer puts into a pong
PongStamps == {1, 2 ^ (TsBits - 1)}

\* Connection (authenticated) and Session.time_offset, Session.running
LinkNew ==
    [open |-> TRUE, wire |-> <<>>, arrived |-> 0, interrupted_message_buffer |-> <<>>,
     pc |-> "select", start |-> 0, clock |-> 0, pings |-> 0,
     returned |-> <<>>, pongs |-> {}, held |-> {}, late |-> 0,
     result |-> "none", time_offset |-> 0, running |-> TRUE]

\* `x as i64`
AsSigned(x) == IF x > MaxOff THEN x - 2 ^ TsBits ELSE x

\* the time_offset that Connection::ping computes
PingOffset(start_time, end_time, actual_timestamp) ==
    LET latency == IF end_time >= start_time THEN end_time - start_time ELSE 0
        expected_timestamp == start_time + latency \div 2
    IN  AsSigned((actual_timestamp - expected_timestamp) % 2 ^ TsBits)

linkFrame == <<config, query, conn, now, sync, chan, roomVars>>

\* the peer sends a message, or ends the stream
PeerSend(kind, timestamp) ==
    /\ link.arrived < MaxPeerMsgs
    /\ \A i \in DOMAIN link.wire : link.wire[i].kind # "eof"
    /\ link.open
    /\ link' = [link EXCEPT !.arrived = @ + 1,
                            !.wire = Append(@, PeerMsg(link.arrived + 1, kind, timestamp))]
    /\ UNCHANGED linkFrame

\* the clock of the server advances
ClockTick ==
    /\ link.clock < MaxClock
    /\ link' = [link EXCEPT !.clock = @ + 1]
    /\ UNCHANGED linkFrame

\* the supervisor of A is in its select!, in no handler
Selecting == Ready("A") /\ link.running /\ link.pc = "select"

\* Connection::recv: a buffered message is returned first
RecvBuffered ==
    /\ Selecting
    /\ link.interrupted_message_buffer # <<>>
    /\ link' = [link EXCEPT !.interrupted_message_buffer = Tail(@),
                            !.returned = Append(@, Head(link.interrupted_message_buffer))]
    /\ UNCHANGED linkFrame

\* Connection::recv on a message of the transport: a ping is answered, a
\* keepalive and a pong are skipped, a request is returned
RecvStep(m) ==
    IF m.kind = "ping" THEN [link EXCEPT !.wire = Tail(@), !.pongs = @ \cup {m.n}]
    ELSE IF m.kind = "keepalive" THEN [link EXCEPT !.wire = Tail(@)]
    ELSE IF m.kind = "pong" THEN [link EXCEPT !.wire = Tail(@), !.late = @ + 1]
    ELSE [link EXCEPT !.wire = Tail(@), !.returned = Append(@, m)]

RecvMessage ==
    /\ Selecting
    /\ link.interrupted_message_buffer = <<>>
    /\ link.open
    /\ link.wire # <<>>
    /\ Head(link.wire).kind # "eof"
    /\ link' = RecvStep(Head(link.wire))
    /\ UNCHANGED linkFrame

\* Connection::recv returns None (the stream ended, or the connection was
\* closed before): Session::run leaves its loop and the room
RecvEnd ==
    /\ Selecting
    /\ link.interrupted_message_buffer = <<>>
    /\ \/ ~link.open
       \/ link.wire # <<>> /\ Head(link.wire).kind = "eof"
    /\ link' = [link EXCEPT !.open = FALSE, !.wire = <<>>, !.running = FALSE]
    /\ ConnClosed("A")
    /\ UNCHANGED <<ops, config, query, conn, now, sync, chan>>

\* ping_interval.tick(): Session::ping calls Connection::ping, which sends a
\* ping and starts to wait for the pong
PingStart ==
    /\ Selecting
    /\ link.pings < MaxPings
    /\ link' = [link EXCEPT !.pings = @ + 1, !.pc = "ping", !.start = link.clock,
                            !.result = "none"]
    /\ UNCHANGED linkFrame

\* the mutation of WaitStep that drops what is not the pong
WaitStepDrop(m) ==
    IF m.kind = "pong"
    THEN [link EXCEPT !.wire = Tail(@), !.pc = "select", !.result = "pong",
                      !.time_offset = PingOffset(link.start, link.clock, m.timestamp)]
    ELSE IF m.kind = "eof"
    THEN [link EXCEPT !.wire = <<>>, !.open = FALSE, !.pc = "select", !.result = "closed"]
    ELSE [link EXCEPT !.wire = Tail(@), !.held = @ \cup {m.n}]

\* start_interrupt reads a message: the pong ends the wait and Session::ping
\* stores the offset; the end of the stream ends it with Ok(None); any other
\* message goes to the buffer
WaitStep(m) ==
    IF m.kind = "pong"
    THEN [link EXCEPT !.wire = Tail(@), !.pc = "select", !.result = "pong",
                      !.time_offset = PingOffset(link.start, link.clock, m.timestamp)]
    ELSE IF m.kind = "eof"
    THEN [link EXCEPT !.wire = <<>>, !.open = FALSE, !.pc = "select", !.result = "closed"]
    ELSE [link EXCEPT !.wire = Tail(@), !.held = @ \cup {m.n},
                      !.interrupted_message_buffer = Append(@, m)]

WaitRead ==
    /\ link.pc = "ping"
    /\ IF link.open
       THEN /\ link.wire # <<>>
            /\ link' = WaitStep(Head(link.wire))
       ELSE link' = [link EXCEPT !.pc = "select", !.result = "closed"]
    /\ UNCHANGED linkFrame

\* the mutation of TimedOut that resets the offset
TimedOutReset == [link EXCEPT !.pc = "select", !.result = "timeout", !.time_offset = 0]

\* what the timeout of Connection::ping leaves of the session
TimedOut == [link EXCEPT !.pc = "select", !.result = "timeout"]

\* PING_TIMEOUT passes without a pong: Connection::ping returns Err, which
\* Session::ping logs
PingTimeout ==
    /\ link.pc = "ping"
    /\ link' = TimedOut
    /\ UNCHANGED linkFrame


\* ------------------------------------------------------------ specifications
InitSessions(HS) ==
    /\ sLife = [s \in Sessions |-> "run"]
    /\ sHost \in {[s \in Sessions |-> s \in H] : H \in HS}
    /\ sRoom = [s \in Sessions |-> NoRoom]
    /\ sPc = [s \in Sessions |-> Idle]
    /\ sInbox = [s \in Sessions |-> <<>>]
    /\ lock = None
    /\ reg = {}
    /\ ctl = {}
    /\ rTask = [r \in Rooms |-> "none"]
    /\ rRunning = [r \in Rooms |-> FALSE]
    /\ rPass = [r \in Rooms |-> ""]
    /\ rUsers = [r \in Rooms |-> EmptyUsers]
    /\ rPlayback = [r \in Rooms |-> NoPlayback]
    /\ rCmd = [r \in Rooms |-> <<>>]
    /\ rReq = [r \in Rooms |-> <<>>]
    /\ rRes = [r \in Rooms |-> "ok"]
    /\ rResFrom = [r \in Rooms |-> None]
    /\ rPub = [r \in Rooms |-> FALSE]
    /\ rCloses = [r \in Rooms |-> {}]
    /\ ops = [enter |-> 0, act |-> 0]
    /\ last = Out(None, <<>>, <<>>, None)

InitEdge(KL) ==
    /\ config \in [api_policy : ApiAccessPolicy, api_keys : KL]
    /\ query = NoQuery
    /\ conn = ConnectionNew
    /\ now = 0
    /\ sync = NoSync
    /\ link = LinkNew
    /\ chan = MessageChannelNew

\* the rooms and sessions of a server open to every peer
InitRoom(HS) == InitSessions(HS) /\ InitEdge({<<>>}) /\ ~config.api_policy.restrict_connect
                /\ ~config.api_policy.restrict_host

\* an input from outside: a client message arrives, a peer goes away
Input == ops.act < MaxOps /\ ops' = [ops EXCEPT !.act = @ + 1] /\ UNCHANGED edgeVars

\* an input from outside to a room with a playback
InputDeep == ops.act < MaxPlayOps /\ ops' = [ops EXCEPT !.act = @ + 1] /\ UNCHANGED edgeVars

\* an input from outside: a client asks to create or to join a room
Enter == ops.enter < MaxEnter /\ ops' = [ops EXCEPT !.enter = @ + 1] /\ UNCHANGED edgeVars

\* ---- one room, two sessions: A may create rooms, B may not
EnterRoom ==
    \/ /\ FreshRooms({"R1"}) # <<>>
       /\ ClientCreateRoom("A", "", {"R1"})
    \/ \E s \in {"A", "B"} : ClientJoinRoom(s, "R1", "")

InputRoom ==
    \/ \E s \in {"A", "B"} : ClientLeaveRoom(s)
    \/ \E s \in {"A", "B"} : ClientCloseRoom(s)
    \/ \E target \in {"A", "B"}, role \in Roles : ClientSetUserRole("A", target, role)
    \/ \E target \in {"A", "B"} : ClientKick("A", target)
    \/ \E s \in {"A", "B"} : ConnClosed(s)

InternalRoom ==
    \/ \E s \in {"A", "B"} : DoJoin(s)
    \/ \E s \in {"A", "B"} : CloseDone(s)
    \/ \E s \in {"A", "B"} : AwaitResult(s)
    \/ \E s \in {"A", "B"} : HandleSessionMsg(s)
    \/ \E s \in {"A", "B"} : SessionDrop(s)
    \/ \E s \in {"A", "B"} : SessionGone(s)
    \/ RoomHandleCmd("R1")
    \/ RoomHandleRequest("R1")

NextRoom ==
    \/ Enter /\ EnterRoom
    \/ Input /\ InputRoom
    \/ InternalRoom /\ UNCHANGED <<ops, edgeVars>>

SpecRoom == InitRoom({{"A"}}) /\ [][NextRoom]_vars

\* ---- one room, two sessions whose connections close: A creates, B joins,
\* may leave and asks to create without the permission to host
EnterExit ==
    \/ /\ FreshRooms({"R1"}) # <<>>
       /\ ClientCreateRoom("A", "", {"R1"})
    \/ ClientJoinRoom("B", "R1", "")
    \/ ClientCreateRoom("B", "", {"R1"})

InputExit ==
    \/ ClientLeaveRoom("B")
    \/ \E s \in {"A", "B"} : ConnClosed(s)

InternalExit ==
    \/ DoJoin("B")
    \/ \E s \in {"A", "B"} : AwaitResult(s)
    \/ \E s \in {"A", "B"} : HandleSessionMsg(s)
    \/ \E s \in {"A", "B"} : SessionDrop(s)
    \/ \E s \in {"A", "B"} : SessionGone(s)
    \/ RoomHandleCmd("R1")
    \/ RoomHandleRequest("R1")

NextExit ==
    \/ Enter /\ EnterExit
    \/ Input /\ InputExit
    \/ InternalExit /\ UNCHANGED <<ops, edgeVars>>

\* the tokio runtime polls every spawned task that can make progress: while
\* a step of a session task or of the room task is possible, one is taken
FairExit == WF_vars(InternalExit /\ UNCHANGED <<ops, edgeVars>>)

SpecExit == InitRoom({{"A"}}) /\ [][NextExit]_vars /\ FairExit

\* ---- one room that its Host closes: A creates and closes, B joins, asks to
\* close and may go away
EnterClose ==
    \/ /\ FreshRooms({"R1"}) # <<>>
       /\ ClientCreateRoom("A", "", {"R1"})
    \/ ClientJoinRoom("B", "R1", "")

InputClose ==
    \/ \E s \in {"A", "B"} : ClientCloseRoom(s)
    \/ ConnClosed("B")

InternalClose ==
    \/ DoJoin("B")
    \/ CloseDone("A")
    \/ AwaitResult("B")
    \/ \E s \in {"A", "B"} : HandleSessionMsg(s)
    \/ SessionDrop("B")
    \/ SessionGone("B")
    \/ RoomHandleCmd("R1")
    \/ RoomHandleRequest("R1")

NextClose ==
    \/ Enter /\ EnterClose
    \/ Input /\ InputClose
    \/ InternalClose /\ UNCHANGED <<ops, edgeVars>>

\* as FairExit, for the tasks of this specification
FairClose == WF_vars(InternalClose /\ UNCHANGED <<ops, edgeVars>>)

SpecClose == InitRoom({{"A"}}) /\ [][NextClose]_vars /\ FairClose

\* ---- one room and its creator A, whose select takes the messages of its
\* peer before those of its inbox: A asks for the state over and over, and
\* closes the room
EnterFull ==
    /\ FreshRooms({"R1"}) # <<>>
    /\ ClientCreateRoom("A", "", {"R1"})

InputFull ==
    /\ ops.act < MaxFlood
    /\ ops' = [ops EXCEPT !.act = @ + 1]
    /\ UNCHANGED edgeVars
    /\ \/ ClientRequestState("A")
       \/ ClientCloseRoom("A")

InternalFull ==
    \/ CloseDone("A")
    \/ AwaitResult("A")
    \/ HandleSessionMsg("A")
    \/ RoomHandleCmd("R1")
    \/ RoomHandleRequest("R1")

NextFull ==
    \/ Enter /\ EnterFull
    \/ InputFull
    \/ InternalFull /\ UNCHANGED <<ops, edgeVars>>

SpecFull == InitRoom({{"A"}}) /\ [][NextFull]_vars

\* ---- one room, three sessions: A creates it and may leave it, B and C join
\* and may go away, A makes others Host or Spectator
EnterSucc ==
    \/ /\ FreshRooms({"R1"}) # <<>>
       /\ ClientCreateRoom("A", "", {"R1"})
    \/ \E s \in {"B", "C"} : ClientJoinRoom(s, "R1", "")

InputSucc ==
    \/ ClientLeaveRoom("A")
    \/ \E target \in {"B", "C"}, role \in {"Host", "Spectator"} :
         ClientSetUserRole("A", target, role)
    \/ \E s \in {"B", "C"} : ConnClosed(s)

InternalSucc ==
    \/ \E s \in Sessions : DoJoin(s)
    \/ \E s \in Sessions : AwaitResult(s)
    \/ \E s \in Sessions : HandleSessionMsg(s)
    \/ \E s \in Sessions : SessionDrop(s)
    \/ \E s \in Sessions : SessionGone(s)
    \/ RoomHandleCmd("R1")
    \/ RoomHandleRequest("R1")

NextSucc ==
    \/ Enter /\ EnterSucc
    \/ Input /\ InputSucc
    \/ InternalSucc /\ UNCHANGED <<ops, edgeVars>>

SpecSucc == InitRoom({{"A"}}) /\ [][NextSucc]_vars

\* ---- two rooms, two sessions that may both create rooms
EnterMulti ==
    \/ \E s \in {"A", "B"} :
         /\ Len(FreshRooms(Rooms)) > Cardinality(Creating)
         /\ ClientCreateRoom(s, "", Rooms)
    \/ \E s \in {"A", "B"}, r \in Rooms : ClientJoinRoom(s, r, "")

InputMulti ==
    \/ \E s \in {"A", "B"} : ClientLeaveRoom(s)
    \/ \E s \in {"A", "B"} : ConnClosed(s)

InternalMulti ==
    \/ \E s \in {"A", "B"} : DoCreate(s, Rooms)
    \/ \E s \in {"A", "B"} : DoJoin(s)
    \/ \E s \in {"A", "B"} : AwaitResult(s)
    \/ \E s \in {"A", "B"} : HandleSessionMsg(s)
    \/ \E s \in {"A", "B"} : SessionDrop(s)
    \/ \E s \in {"A", "B"} : SessionGone(s)
    \/ \E r \in Rooms : RoomHandleCmd(r)
    \/ \E r \in Rooms : RoomHandleRequest(r)

NextMulti ==
    \/ Enter /\ EnterMulti
    \/ Input /\ InputMulti
    \/ InternalMulti /\ UNCHANGED <<ops, edgeVars>>

SpecMulti == InitRoom({{"A", "B"}}) /\ [][NextMulti]_vars

\* ---- one room with a playback, two sessions
EnterPlay ==
    \/ /\ FreshRooms({"R1"}) # <<>>
       /\ ClientCreateRoom("A", "", {"R1"})
    \/ ClientJoinRoom("B", "R1", "")

InputPlay ==
    \/ \E s \in {"A", "B"} : ClientLeaveRoom(s)
    \/ \E s \in {"A", "B"} : ClientHostPlayback(s)
    \/ \E s \in {"A", "B"} : ClientConnectPlayback(s)
    \/ \E s \in {"A", "B"}, preq \in {"Start", "Stop", "Disconnect"} : ClientPlayback(s, preq)
    \/ \E s \in {"A", "B"} : ConnClosed(s)

InternalPlay ==
    \/ DoJoin("B")
    \/ \E s \in {"A", "B"} : AwaitResult(s)
    \/ \E s \in {"A", "B"} : HandleSessionMsg(s)
    \/ \E s \in {"A", "B"} : SessionDrop(s)
    \/ \E s \in {"A", "B"} : SessionGone(s)
    \/ RoomHandleCmd("R1")
    \/ RoomHandleRequest("R1")

NextPlay ==
    \/ Enter /\ EnterPlay
    \/ Input /\ InputPlay
    \/ InternalPlay /\ UNCHANGED <<ops, edgeVars>>

SpecPlay == InitRoom({{"A"}}) /\ [][NextPlay]_vars

\* ---- one room with any password, and an id no room has: A creates and
\* closes, A and B join with any password, B may go away
EnterJoin ==
    \/ /\ FreshRooms({"R1"}) # <<>>
       /\ \E pw \in Passwords : ClientCreateRoom("A", pw, {"R1"})
    \/ \E s \in {"A", "B"}, r \in Rooms, pw \in Passwords : ClientJoinRoom(s, r, pw)

InputJoin ==
    \/ \E s \in {"A", "B"} : ClientLeaveRoom(s)
    \/ ClientCloseRoom("A")
    \/ ConnClosed("B")

InternalJoin ==
    \/ \E s \in {"A", "B"} : DoJoin(s)
    \/ CloseDone("A")
    \/ \E s \in {"A", "B"} : AwaitResult(s)
    \/ \E s \in {"A", "B"} : HandleSessionMsg(s)
    \/ SessionDrop("B")
    \/ SessionGone("B")
    \/ RoomHandleCmd("R1")
    \/ RoomHandleRequest("R1")

NextJoin ==
    \/ Enter /\ EnterJoin
    \/ Input /\ InputJoin
    \/ InternalJoin /\ UNCHANGED <<ops, edgeVars>>

SpecJoin == InitRoom({{"A"}}) /\ [][NextJoin]_vars

\* ---- one room, two sessions and a playback of A that is started and
\* stopped, with B connecting to it
EnterStop ==
    \/ /\ FreshRooms({"R1"}) # <<>>
       /\ ClientCreateRoom("A", "", {"R1"})
    \/ /\ sRoom["B"] = NoRoom
       /\ ClientJoinRoom("B", "R1", "")

InputStop ==
    \/ ClientHostPlayback("A")
    \/ \E preq \in {"Start", "Stop"} : ClientPlayback("A", preq)
    \/ \E s \in {"A", "B"} : ClientConnectPlayback(s)

InternalStop ==
    \/ DoJoin("B")
    \/ \E s \in {"A", "B"} : AwaitResult(s)
    \/ \E s \in {"A", "B"} : HandleSessionMsg(s)
    \/ RoomHandleCmd("R1")
    \/ RoomHandleRequest("R1")

NextStop ==
    \/ Enter /\ EnterStop
    \/ InputDeep /\ InputStop
    \/ InternalStop /\ UNCHANGED <<ops, edgeVars>>

SpecStop == InitRoom({{"A"}}) /\ [][NextStop]_vars

\* ---- one room, two sessions and playbacks that supersede each other: A
\* hosts and starts, B connects, either hosts anew; B may go away
EnterSuper ==
    \/ /\ FreshRooms({"R1"}) # <<>>
       /\ ClientCreateRoom("A", "", {"R1"})
    \/ /\ sRoom["B"] = NoRoom
       /\ ClientJoinRoom("B", "R1", "")
    \/ ConnClosed("B")

InputSuper ==
    \/ \E s \in {"A", "B"} : ClientHostPlayback(s)
    \/ ClientPlayback("A", "Start")
    \/ ClientConnectPlayback("B")

InternalSuper ==
    \/ DoJoin("B")
    \/ \E s \in {"A", "B"} : AwaitResult(s)
    \/ \E s \in {"A", "B"} : HandleSessionMsg(s)
    \/ SessionDrop("B")
    \/ SessionGone("B")
    \/ RoomHandleCmd("R1")
    \/ RoomHandleRequest("R1")

NextSuper ==
    \/ Enter /\ EnterSuper
    \/ InputDeep /\ InputSuper
    \/ InternalSuper /\ UNCHANGED <<ops, edgeVars>>

SpecSuper == InitRoom({{"A"}}) /\ [][NextSuper]_vars

\* ---- Sync requests on a started playback of A, over all clock offsets
NextSync ==
    \/ /\ ~sync.asked
       /\ \E subs \in SUBSET {"B", "C"}, id \in {"A", "B"}, state \in PlaybackStates,
             off \in [Sessions -> Offsets], life \in SyncLives, build \in Builds :
            SyncAsk(subs, id, state, off, life, build)
    \/ SyncForget

InitSync == InitRoom({{}})

SpecSync == InitSync /\ [][NextSync]_vars

\* ---- session A, in a room of its own or in none, its peer and its pings
PeerPing ==
    \/ \E kind \in PeerKinds \ {"pong"} : PeerSend(kind, 0)
    \/ \E timestamp \in PongStamps : PeerSend("pong", timestamp)

LinkPing ==
    \/ ClockTick
    \/ RecvBuffered
    \/ RecvMessage
    \/ RecvEnd
    \/ PingStart
    \/ WaitRead
    \/ PingTimeout

EnterPing == link.pc = "select" /\ link.running /\ ClientCreateRoom("A", "", {"R1"})

InternalPing ==
    \/ DoCreate("A", {"R1"})
    \/ AwaitResult("A")
    \/ link.pc = "select" /\ HandleSessionMsg("A")
    \/ RoomHandleCmd("R1")
    \/ RoomHandleRequest("R1")

NextPing ==
    \/ PeerPing
    \/ LinkPing
    \/ Enter /\ EnterPing
    \/ InternalPing /\ UNCHANGED <<ops, edgeVars>>

SpecPing == InitRoom({{"A"}}) /\ [][NextPing]_vars

\* ---- one message channel, the frames of its peer and its sends, alone and
\* under the raw_recv of its connection
NextChan ==
    \/ \E frame \in Frames : FrameReceived(frame)
    \/ \E result \in {"none", "err"} : StreamError(result)
    \/ MessageSent
    \/ \E frame \in Frames : RawRecvFrame(frame)

InitChan == InitRoom({{}})

SpecChan == InitChan /\ [][NextChan]_vars

\* ---- one connection from its creation to its drop
NextConn ==
    \/ \E key \in ApiKeyNames \cup {None}, sent \in BOOLEAN : RecvLogin(key, sent)
    \/ RecvOther
    \/ RecvMalformed
    \/ RecvTransportError
    \/ SendTransportError
    \/ RecvNone
    \/ LoginTimeout
    \/ Tick
    \/ \E reason \in {"ServerError", "Unauthorized"} : CallClose(reason)
    \/ RecvClosed
    \/ ConnDrop

InitConn == InitSessions({{}}) /\ InitEdge(KeyLists(1))

SpecConn == InitConn /\ [][NextConn]_vars

\* ---- calls of get_permissions under every configuration
NextPerm ==
    \/ \E key \in ApiKeyNames \cup {None} : Ask(key)
    \/ Forget

InitPerm == InitSessions({{}}) /\ InitEdge(KeyLists(MaxKeys))

SpecPerm == InitPerm /\ [][NextPerm]_vars

\* ------------------------------------------------------------ claims
Alive(r) == rTask[r] = "alive" /\ rRunning[r]

HasHost(users) == \E u \in DOMAIN users : users[u] = "Host"

\* C1: a room that is not closing and has at least one user has a user with
\* role Host, also after a SetRole that demotes the only Host.
C1_AlwaysHost ==
    \A r \in Rooms : Alive(r) /\ DOMAIN rUsers[r] # {} => HasHost(rUsers[r])

\* C2: while a room has a playback, the playback's host and all its subscribers
\* are users of the room, also after one of them left.
C2_PlaybackMembers ==
    \A r \in Rooms :
        Alive(r) /\ rPlayback[r].present =>
            /\ rPlayback[r].host \in DOMAIN rUsers[r]
            /\ rPlayback[r].subscribers \subseteq DOMAIN rUsers[r]

RoomsOf(s) == {r \in Rooms : Alive(r) /\ s \in DOMAIN rUsers[r]}

\* C3: a session id is in the users map of at most one running room.
C3_OneRoom == \A s \in Sessions : Cardinality(RoomsOf(s)) <= 1

\* C4: the result send_request returns is the outcome of the caller's own
\* request, not that of an earlier command or request or of another session's.
C4_OwnResult == last.ret # "stale"

\* a step in which room r handled a command or a request
Handled(r) ==
    /\ rTask[r] = "alive"
    /\ \/ rTask'[r] = "done"
       \/ Len(rCmd'[r]) < Len(rCmd[r])
       \/ Len(rReq'[r]) < Len(rReq[r])

RoomState(r) == <<rTask[r], rRunning[r], rUsers[r], rPlayback[r], rCmd[r], rReq[r],
                  rRes[r], rResFrom[r], rCloses[r]>>

EmptyCloses(r) ==
    /\ DOMAIN rUsers[r] # {} /\ DOMAIN rUsers'[r] = {} =>
          /\ "ClosedByHost" \in rCloses'[r]
          /\ ~rRunning'[r]
          /\ rTask'[r] = "done"
    /\ rTask[r] = "done" => RoomState(r)' = RoomState(r)

\* C6: when the removal of a user leaves the users map empty the room closes
\* with reason ClosedByHost, running becomes false and the task ends; a room
\* whose task ended handles nothing and never changes again.
C6_EmptyCloses == [][\A r \in Rooms : EmptyCloses(r)]_vars

C6_Witness ==
    \E r \in Rooms :
        /\ rTask[r] = "done"
        /\ DOMAIN rUsers[r] = {}
        /\ rCloses[r] = {"ClosedByHost"}
        /\ rResFrom[r] \in Sessions

\* a step in which room r handled the request at the head of its request inbox
HandledRequest(r) == Handled(r) /\ rReq[r] # <<>> /\ rResFrom'[r] # "cmd"

\* the users left when `id` is taken out of the users map of room r
Others(r, id) == DOMAIN rUsers[r] \ {id}

\* room r handles a Leave that removes its last Host while others remain
LastHostLeaves(r) ==
    /\ HandledRequest(r)
    /\ Head(rReq[r]).op = "Leave"
    /\ Head(rReq[r]).sid \in DOMAIN rUsers[r]
    /\ rUsers[r][Head(rReq[r]).sid] = "Host"
    /\ Others(r, Head(rReq[r]).sid) # {}
    /\ \A u \in Others(r, Head(rReq[r]).sid) : rUsers[r][u] # "Host"

\* the step delivered to u a RoomState in which p has role Host
GotStateWithHost(u, p) ==
    \E i \in 1..Len(last'.out) :
        /\ last'.out[i].to = u
        /\ last'.out[i].msg.kind = "RoomState"
        /\ p \in DOMAIN last'.out[i].msg.users
        /\ last'.out[i].msg.users[p] = "Host"

\* of the users U of room r, p alone was promoted to Host, a Guest if U had one,
\* the others kept their roles and all of U got the RoomState with the new Host
Succeeded(r, U, p) ==
    /\ p \in U
    /\ rUsers'[r][p] = "Host"
    /\ (\E g \in U : rUsers[r][g] = "Guest") => rUsers[r][p] = "Guest"
    /\ \A u \in U \ {p} : rUsers'[r][u] = rUsers[r][u]
    /\ \A u \in U : GotStateWithHost(u, p)

PromotesOne(r) ==
    LastHostLeaves(r) =>
        /\ DOMAIN rUsers'[r] = Others(r, Head(rReq[r]).sid)
        /\ \E p \in DOMAIN rUsers'[r] : Succeeded(r, DOMAIN rUsers'[r], p)

PromotesOneLeft(r) ==
    LastHostLeaves(r) /\ rRunning'[r] =>
        /\ DOMAIN rUsers'[r] \subseteq Others(r, Head(rReq[r]).sid)
        /\ \A u \in Others(r, Head(rReq[r]).sid) \ DOMAIN rUsers'[r] : sLife'[u] = "gone"
        /\ \E p \in DOMAIN rUsers'[r] : Succeeded(r, DOMAIN rUsers'[r], p)

C7_LoginGate ==
    /\ conn.login_acks > 0 \/ conn.session =>
          /\ conn.username
          /\ conn.permissions.connect
    /\ conn.username =>
          /\ conn.permissions = GetPermissions(config, conn.api_key)
          /\ ~conn.permissions.connect =>
                /\ conn.closed_msgs = <<"Unauthorized">>
                /\ conn.transport_closes = 1
                /\ ~conn.open
                /\ conn.login_acks = 0
                /\ ~conn.session

\* a login without connect was turned away, and the connection dropped since
C7_Witness ==
    /\ conn.username
    /\ ~conn.permissions.connect
    /\ conn.phase = "dropped"
    /\ conn.closed_msgs = <<"Unauthorized">>

\* C8: a connection still waiting for the login message when the login timeout
\* has passed since the wait began is closed at that deadline; other messages
\* do not move the deadline.
C8_LoginDeadline == conn.phase = "login" => now <= LOGIN_TIMEOUT

OnceClosed ==
    /\ Len(conn'.closed_msgs) <= 1
    /\ conn'.transport_closes <= 1
    /\ ~conn.open =>
          /\ ~conn'.open
          /\ conn'.closed_msgs = conn.closed_msgs
          /\ conn'.transport_closes = conn.transport_closes
          /\ conn'.login_acks = conn.login_acks
          /\ conn'.client_errors = conn.client_errors

\* C9: over any sequence of close calls, the drop and a closure by the peer,
\* at most one closed message is sent and the transport is closed at most
\* once; on a closed connection a close sends nothing and leaves it closed.
C9_CloseOnce == [][OnceClosed]_vars

\* closed once although close ran three times
C9_Witness ==
    /\ conn.close_calls >= 3
    /\ Len(conn.closed_msgs) = 1
    /\ conn.transport_closes = 1
    /\ conn.phase = "dropped"

Baseline == ApiPermissions(~config.api_policy.restrict_connect,
                           ~config.api_policy.restrict_host)

\* the places of the configured entries with the key asked for
Matches == {i \in 1..Len(config.api_keys) : config.api_keys[i].key = query.key}

FirstMatch == config.api_keys[CHOOSE i \in Matches : \A j \in Matches : i <= j]

\* C10: get_permissions returns the baseline when the key is absent or
\* matches no entry, else per capability the baseline or the grant of the
\* (first) matched entry; never less than the baseline.
C10_Permissions ==
    query.asked =>
        /\ query.key = None \/ Matches = {} => query.permissions = Baseline
        /\ query.key # None /\ Matches # {} =>
              /\ query.permissions.connect
                    = (Baseline.connect \/ FirstMatch.permissions.connect)
              /\ query.permissions.host = (Baseline.host \/ FirstMatch.permissions.host)
        /\ Baseline.connect => query.permissions.connect
        /\ Baseline.host => query.permissions.host

\* a key lifted a restriction, and a key without grant kept the open baseline
C10_Witness ==
    /\ query.asked
    /\ Matches # {}
    /\ config.api_policy.restrict_connect /\ query.permissions.connect
    /\ ~config.api_policy.restrict_host /\ ~FirstMatch.permissions.host
    /\ query.permissions.host

\* the request room r's inbox gained in this step, if it gained one
Queued(r) == rReq'[r][Len(rReq'[r])]

\* the role session s has in room r according to the room
HasRole(r, s, roles) == s \in DOMAIN rUsers[r] => rUsers[r][s] \in roles

\* C11: a set-role, kick or close-room request of a session whose role in the
\* room does not carry the permission never reaches the room: no SetRole, no
\* Leave of another user and no Close is queued for it, also when the session
\* was Host once and its role was changed since.
C11_Authorized ==
    [][\A r \in Rooms :
          /\ Len(rReq'[r]) = Len(rReq[r]) + 1 =>
                /\ Queued(r).op = "SetRole" =>
                      HasRole(r, Queued(r).from,
                              {x \in Roles : Permissions(x).can_set_roles})
                /\ Queued(r).op = "Leave" /\ Queued(r).sid # Queued(r).from =>
                      HasRole(r, Queued(r).from, {x \in Roles : Permissions(x).can_kick})
          /\ Len(rCmd'[r]) = Len(rCmd[r]) + 1 /\ rCmd'[r][Len(rCmd'[r])].op = "Close" =>
                HasRole(r, lock', {x \in Roles : Permissions(x).can_close})]_vars

\* the room::join message answered in this step, if the step answered one
Answered == last'.arg # NoArg

\* a room the registry holds and whose actor runs
Exists(r) == r \in reg /\ rTask[r] = "alive" /\ rRunning[r]

JoinsAsGuest(s, r) ==
    /\ rCmd'[r] = Append(rCmd[r], Cmd("Join", "Guest", s, None))
    /\ sRoom'[s].id = r
    /\ last'.wire = <<W("room::join_ack", None)>>

TurnedAway(s) ==
    /\ last'.wire = <<IncorrectPassword>>
    /\ rCmd' = rCmd
    /\ rUsers' = rUsers
    /\ sRoom'[s] = sRoom[s]

\* the room takes a Join from its command inbox in this step
TakesJoin(r) ==
    /\ Handled(r)
    /\ rResFrom'[r] = "cmd"
    /\ rCmd[r] # <<>>
    /\ Head(rCmd[r]).op = "Join"

\* the answer to a room::join follows the password
JoinDecided ==
    /\ Answered /\ Exists(last'.arg.room) =>
          IF last'.arg.pw = rPass[last'.arg.room]
          THEN JoinsAsGuest(last'.by, last'.arg.room)
          ELSE TurnedAway(last'.by)
    /\ \A r \in Rooms :
          /\ Len(rCmd'[r]) = Len(rCmd[r]) + 1
          /\ rCmd'[r][Len(rCmd'[r])] \in {Cmd("Join", "Guest", s, None) : s \in Sessions}
          => Answered /\ last'.arg = [room |-> r, pw |-> rPass[r]]

\* the room that takes a Join has the joiner as a user with the role of the
\* Join, unless the joiner's session is gone
JoinTaken ==
    \A r \in Rooms :
        TakesJoin(r) =>
            \/ /\ Head(rCmd[r]).sid \in DOMAIN rUsers'[r]
               /\ rUsers'[r][Head(rCmd[r]).sid] = Head(rCmd[r]).role
            \/ sLife'[Head(rCmd[r]).sid] = "gone"

JoinChecked == JoinDecided /\ JoinTaken

\* C12: a room::join for a room that exists queues the joiner's Join (as
\* Guest) and is acknowledged exactly when the password sent equals the room's
\* password; with another password the joiner gets the client error
\* "Incorrect password" and the room's users do not change.  The room adds the
\* joiner with that role when it takes the Join.
C12_JoinChecked == [][JoinChecked]_vars

\* B sent the empty password to a room that has one, and was turned away
C12_TurnedAway ==
    /\ last.by = "B"
    /\ last.arg = [room |-> "R1", pw |-> ""]
    /\ last.wire = <<IncorrectPassword>>
    /\ rPass["R1"] = "x"
    /\ Exists("R1")
    /\ DOMAIN rUsers["R1"] = {"A"}

\* C13: a room::join for an id the registry does not hold is answered with the
\* room-absent outcome, never with the one for an incorrect password.
C13_AbsentRoom ==
    last.arg # NoArg /\ last.arg.room \notin reg =>
        /\ last.wire # <<IncorrectPassword>>
        /\ last.wire = <<RoomDoesNotExist>>

\* the request room r handles in this step, when it handles one
Taken(r) == Head(rReq[r])

\* room r handles a playback request `preq` of its playback's host
HostAsks(r, preq) ==
    /\ HandledRequest(r)
    /\ Taken(r).op = "Playback" /\ Taken(r).preq = preq
    /\ rPlayback[r].present
    /\ Taken(r).sid = rPlayback[r].host

\* no playback is in progress: none was started, or a Stop took effect
Stopped(r) == rPlayback[r].present /\ ~rPlayback[r].source

\* C14: a Stop by the playback host that finds the playback stopped sends no
\* message to any session and leaves the playback as it is.
C14_StopTwice ==
    [][\A r \in Rooms :
          HostAsks(r, "Stop") /\ Stopped(r) =>
              /\ last'.out = <<>>
              /\ rPlayback'[r] = rPlayback[r]]_vars

\* the places in this step's deliveries at which session u is sent `kind`
\* with `reason`
SentAt(u, kind, reason) ==
    {i \in 1..Len(last'.out) :
        /\ last'.out[i].to = u
        /\ last'.out[i].msg.kind = kind
        /\ last'.out[i].msg.reason = reason}

\* a session whose inbox still takes messages
Receiving(u) == sLife[u] \in {"run", "exit"}

\* room r handles a PlaybackHost while it has a started playback with subscribers
Supersedes(r) ==
    /\ HandledRequest(r)
    /\ Taken(r).op = "PlaybackHost"
    /\ rPlayback[r].present /\ rPlayback[r].running /\ rPlayback[r].source
    /\ rPlayback[r].subscribers # {}

Superseded(r) ==
    LET new == Taken(r).sid
        hosting == SentAt(new, "PlaybackHosting", None)
    IN  /\ \A u \in rPlayback[r].subscribers :
              Receiving(u) =>
                  /\ SentAt(u, "PlaybackDisconnected", "Superseded") # {}
                  /\ \A i \in SentAt(u, "PlaybackDisconnected", "Superseded"),
                        j \in hosting : i < j
        /\ Receiving(rPlayback[r].host) =>
              /\ SentAt(rPlayback[r].host, "PlaybackStopped", "Superseded") # {}
              /\ \A i \in SentAt(rPlayback[r].host, "PlaybackStopped", "Superseded"),
                    j \in hosting : i < j
        /\ rPlayback'[r] = [NoPlayback EXCEPT !.present = TRUE, !.host = new]

\* C15: a PlaybackHost handled while the room has a started playback with
\* subscribers sends every subscriber PlaybackDisconnected(Stopped(Superseded))
\* and the old host PlaybackStopped(Superseded), all before the PlaybackHosting
\* for the new host; afterwards the room's playback is a new one of the
\* requester, without subscribers.
C15_Superseded == [][\A r \in Rooms : Supersedes(r) => Superseded(r)]_vars

\* the sessions a Sync of the reporter is forwarded to
Recipients == ({"A"} \cup sync.subscribers) \ {sync.id}

\* the reporter takes part in the playback and every session is receiving
SyncAmongReceivers ==
    /\ sync.asked
    /\ sync.id \in {"A"} \cup sync.subscribers
    /\ \A s \in Sessions : sync.life[s] = "run"

\* the timestamp of the reporter on the clock of the server, and on that of x
OnServerClock == sync.state.timestamp - sync.off[sync.id]

OnClockOf(x) == OnServerClock + sync.off[x]

\* the PlaybackSync messages that x was sent
SyncsTo(x) ==
    SelectSeq(sync.out, LAMBDA o : o.to = x /\ o.msg.kind = "PlaybackSync")

\* C16: for a Sync of reporter r with timestamp t, every recipient x receives
\* a PlaybackSync with timestamp t - off(r) + off(x) and with playing and time
\* unchanged, whenever neither t - off(r) nor t - off(r) + off(x) leaves the
\* range of a timestamp.
C16_SyncOffsets ==
    SyncAmongReceivers /\ OnServerClock \in Stamps
    => \A x \in Recipients :
         OnClockOf(x) \in Stamps
         => \E i \in DOMAIN sync.out :
              /\ sync.out[i].to = x
              /\ sync.out[i].msg = SyncMsg([sync.state EXCEPT !.timestamp = OnClockOf(x)])

\* C16 for reporters whose offset is not the least one: the same statement holds
C16_AboveLeast == sync.asked /\ sync.off[sync.id] # MinOff => C16_SyncOffsets

Range(q) == {q[i] : i \in DOMAIN q}

\* C18: every ping of the peer that the connection has taken from its
\* transport has been answered with a pong, and none is returned by recv() to
\* the supervisor, also when it arrived while ping() waited for a pong.
C18_PingsAnswered ==
    /\ \A m \in Range(link.returned) : m.kind # "ping"
    /\ \A m \in Range(link.interrupted_message_buffer) : m.kind = "ping" => m.n \in link.pongs

\* what recv() has returned, followed by what it is going to return first
Handed == link.returned \o link.interrupted_message_buffer

\* C19: every message other than the pong that was read while ping() waited
\* is, exactly once, among the messages that recv() has returned or returns
\* next; these stand in the order of arrival, so before every later message;
\* and the session runs until the connection is closed, whatever pong
\* arrived late.
C19_HeldInOrder ==
    /\ \A n \in link.held : Cardinality({i \in DOMAIN Handed : Handed[i].n = n}) = 1
    /\ \A i, j \in DOMAIN Handed : i < j => Handed[i].n < Handed[j].n
    /\ link.running \/ ~link.open

\* a message read during a wait that timed out was returned before a later
\* one, with a late pong skipped in between
C19_Witness ==
    /\ link.result = "timeout" /\ link.late = 1 /\ link.running
    /\ Len(link.returned) = 2
    /\ link.returned[1].n \in link.held
    /\ link.returned[2].n \notin link.held

\* the wait for a pong of session A ends by timeout in this step
PingTimesOut == link.pc = "ping" /\ link'.pc = "select" /\ link'.result = "timeout"

\* C20: the step in which ping() times out leaves the session running, its
\* room handle, the users of every room and its clock offset as they were.
C20_TimeoutFrame ==
    [][PingTimesOut
       => /\ link'.running /\ sLife'["A"] = "run"
          /\ sRoom' = sRoom
          /\ rUsers' = rUsers
          /\ link'.time_offset = link.time_offset]_vars

\* after a ping that measured an offset, a ping of A timed out while A was a
\* user of its room
C20_Witness ==
    /\ link.result = "timeout" /\ link.pc = "select" /\ link.pings = 2
    /\ link.running
    /\ sRoom["A"] # NoRoom
    /\ "A" \in DOMAIN rUsers["R1"]
    /\ link.time_offset # 0

\* the session is in no handler and holds a handle to a room whose task ended
HoldsTerminated(s) ==
    Ready(s) /\ sRoom[s] # NoRoom /\ rTask[sRoom[s].id] = "done"

\* C21: when the room a session holds a handle to has terminated, the
\* session's next LeaveRoom clears the handle and sends room::disconnected
\* with reason ServerError to the peer.
C21_TerminatedReleases ==
    [][\A s \in {"A", "B"} :
         HoldsTerminated(s) /\ ClientLeaveRoom(s)
         => /\ sRoom'[s] = NoRoom
            /\ \E i \in DOMAIN last'.wire :
                 last'.wire[i] = W("room::disconnected", "ServerError")]_vars

\* C22: no session that holds the registry lock is waiting for the task of a
\* room to complete.
C22_LockOnlyToEnqueue ==
    \A s \in Sessions : lock = s => sPc[s].k # "closewait"

\* the RoomState that Room::join broadcasts when room r takes the Join at the
\* head of its command inbox
JoinSnapshot(r) ==
    Msg("RoomState", None,
        InsertUser(rUsers[r], Head(rCmd[r]).sid, Head(rCmd[r]).role),
        PlaybackInfo(rPlayback[r]))

\* the deliveries to u in the step that carry the message m
SentOf(u, m) == {i \in DOMAIN last'.out : last'.out[i].to = u /\ last'.out[i].msg = m}

\* C23: every recipient of the broadcast of a Join is sent, once, the
\* RoomState taken when the broadcast starts, also when the broadcast removes
\* users whose session is gone while it runs.
C23_OneSnapshot ==
    [][\A r \in Rooms :
         TakesJoin(r) /\ Head(rCmd[r]).sid \notin DOMAIN rUsers[r]
         => \A u \in DOMAIN JoinSnapshot(r).users :
              Receiving(u) => Cardinality(SentOf(u, JoinSnapshot(r))) = 1]_vars

\* the broadcast of a Join removed a user on its way: the room sent states with
\* different user lists in one step, one of them listing a user it has no more
C23_Witness ==
    /\ rResFrom["R1"] = "cmd" /\ last.by = "R1"
    /\ \E i, j \in DOMAIN last.out :
         /\ i < j
         /\ last.out[i].msg.kind = "RoomState" /\ last.out[j].msg.kind = "RoomState"
         /\ DOMAIN last.out[j].msg.users # DOMAIN rUsers["R1"]
         /\ DOMAIN last.out[i].msg.users = DOMAIN rUsers["R1"]

\* session s has a RoomState waiting in its inbox
StateWaiting(s) == \E i \in DOMAIN sInbox[s] : sInbox[s][i].kind = "RoomState"

\* room r was created and has not taken the Join of its creator yet
AwaitsCreator(r) ==
    /\ rTask[r] = "alive" /\ DOMAIN rUsers[r] = {}
    /\ rCmd[r] # <<>> /\ Head(rCmd[r]).op = "Join" /\ Head(rCmd[r]).role = "Host"

\* the deliveries of the step to session s
StepSentTo(s) == SelectSeq(last'.out, LAMBDA d : d.to = s)

AckThenState(r) ==
    \* the step that creates the room sends create_ack, with no state waiting
    /\ rTask[r] = "none" /\ rTask'[r] = "alive"
       => /\ last'.wire = <<W("room::create_ack", None)>>
          /\ sRoom'[last'.by] = RoomHandle(r, "Host", FALSE)
          /\ AwaitsCreator(r)'
          /\ \A s \in Sessions : s = last'.by => ~StateWaiting(s)'
    \* until the room takes the creator's Join the creator has no state to send;
    \* the Join sends it the state that lists the creator alone, as Host
    /\ AwaitsCreator(r) => ~StateWaiting(Head(rCmd[r]).sid)
    /\ AwaitsCreator(r) /\ TakesJoin(r)
       => /\ StepSentTo(Head(rCmd[r]).sid) # <<>>
          /\ Head(StepSentTo(Head(rCmd[r]).sid)).msg
               = Msg("RoomState", None,
                     InsertUser(EmptyUsers, Head(rCmd[r]).sid, "Host"),
                     PlaybackInfo(NoPlayback))
    \* a session sends room::state only from its inbox
    /\ \A s \in Sessions :
         last'.by = s /\ (\E i \in DOMAIN last'.wire : last'.wire[i].m = "room::state")
         => StateWaiting(s) /\ rTask[r] # "none"

\* C24: the step of a CreateRoom sends room::create_ack while no room::state
\* waits in the creator's inbox; the room sends the creator nothing before it
\* takes the creator's Join, and that Join sends the creator first the
\* RoomState that lists exactly the creator, with role Host; the creator
\* sends a room::state to its peer only from its inbox, so after the ack.
C24_AckThenState == [][AckThenState("R1")]_vars

\* the creator has sent the first room::state of its room to its peer
C24_Witness ==
    /\ last.by = "A" /\ last.wire = <<W("room::state", None)>>
    /\ sRoom["A"] = RoomHandle("R1", "Host", FALSE)
    /\ rUsers["R1"] = InsertUser(EmptyUsers, "A", "Host")
    /\ sInbox["A"] = <<>>

\* C25: every outbound frame is Binary when no Binary or Text frame was
\* received before it, and else of the kind of the last such frame received,
\* whether the payload of that frame deserialized or not.
C25_FormatFollows ==
    \A i \in DOMAIN chan.sent :
        chan.sent[i].frame = IF chan.sent[i].after = None THEN "Binary"
                             ELSE chan.sent[i].after

\* a Binary frame was sent first, and a Text frame after a malformed Text frame
\* was received
C25_Witness ==
    /\ Len(chan.sent) >= 2
    /\ chan.sent[1] = [frame |-> "Binary", after |-> None]
    /\ chan.sent[Len(chan.sent)] = [frame |-> "Text", after |-> "Text"]
    /\ chan.result = "err" /\ chan.frames = 3

\* room r handles a PlaybackConnect while it has a playback
Connects(r) ==
    /\ HandledRequest(r)
    /\ Taken(r).op = "PlaybackConnect"
    /\ rPlayback[r].present

\* the request fails and leaves the playback as it is
Refused(r) == rRes'[r] = "err" /\ rPlayback'[r] = rPlayback[r]

NotSubscribed(r) ==
    rPlayback[r].present => rPlayback[r].host \notin rPlayback[r].subscribers

HostApart(r) ==
    /\ NotSubscribed(r) /\ NotSubscribed(r)'
    /\ Connects(r) /\ Taken(r).sid = rPlayback[r].host => Refused(r)

\* C26: the host of a playback is not among its subscribers, and a Connect of
\* the host fails and leaves the playback unchanged.
C26_HostApart == [][\A r \in Rooms : HostApart(r)]_vars

\* the Connect of host A to its started playback with subscriber B failed
C26_Witness ==
    /\ Alive("R1") /\ rPlayback["R1"].present
    /\ rPlayback["R1"].host = "A" /\ rPlayback["R1"].subscribers = {"B"}
    /\ rPlayback["R1"].source
    /\ rRes["R1"] = "err" /\ rResFrom["R1"] = "A"
    /\ DOMAIN rUsers["R1"] = {"A", "B"}
    /\ \A s \in {"A", "B"} : sLife[s] = "run"

\* C27: while no playback is in progress (none was started yet, or a Stop
\* took effect) a Connect fails and leaves the subscribers unchanged, and a
\* Start of the host takes effect: the source is stored and the host is sent
\* PlaybackStarted.
C27_RunsFromStartToStop ==
    [][\A r \in Rooms :
         /\ Connects(r) /\ Stopped(r) => Refused(r)
         /\ HostAsks(r, "Start") /\ Stopped(r) /\ Receiving(rPlayback[r].host)
            => /\ rPlayback'[r].source
               /\ SentAt(rPlayback[r].host, "PlaybackStarted", None) # {}]_vars

\* the subscribers other than the reporter to which a delivery fails
FailingSubscribers == {x \in sync.subscribers \ {sync.id} : sync.life[x] # "run"}

\* a Sync of a participant whose handling does not panic
SyncHandled ==
    sync.asked /\ ~sync.panic /\ sync.id \in {"A"} \cup sync.subscribers

\* C28: when the Sync of a subscriber cannot be delivered to the host because
\* the host's session is gone, no session receives a PlaybackSync, no
\* subscriber is left and every subscriber is sent
\* PlaybackDisconnected(StoppedByHost); when the delivery to a subscriber
\* fails, exactly the failing subscribers are removed and every other
\* recipient still receives the sync.
C28_SyncFailures ==
    /\ SyncHandled /\ sync.id # "A" /\ sync.life["A"] = "gone"
       => /\ \A x \in Sessions : SyncsTo(x) = <<>>
          /\ sync.left = {}
          /\ \A x \in sync.subscribers :
               \E i \in DOMAIN sync.out :
                 /\ sync.out[i].to = x
                 /\ sync.out[i].msg = PlainMsg("PlaybackDisconnected", "StoppedByHost")
    /\ SyncHandled /\ sync.life["A"] = "run" /\ FailingSubscribers # {}
       => /\ sync.left = sync.subscribers \ FailingSubscribers
          /\ \A x \in Recipients \ FailingSubscribers : Len(SyncsTo(x)) = 1

\* C29: the step in which a room handles a Join, and finds the inbox of a user
\* gone while it broadcasts the new state, removes no user, changes no role
\* and sends no session more than the one state of that broadcast; the Leave
\* of the user is left to a later step.
C29_LeaveQueued ==
    [][\A r \in Rooms :
         TakesJoin(r)
         => /\ \A u \in DOMAIN rUsers[r] :
                 u \in DOMAIN rUsers'[r] /\ rUsers'[r][u] = rUsers[r][u]
            /\ \A u \in Sessions : Len(StepSentTo(u)) <= 1]_vars

\* C30: whenever a send or a receive on the connection's transport has failed
\* with a transport error, the connection is closed: is_open() is false (and
\* so every later recv() returns none).
C30_TransportErrorCloses == conn.transport_failed => ~conn.open

\* the connection of session s has closed: its select loop is left
Departed(s) == sLife[s] # "run"

InUsers(s, r) == rTask[r] = "alive" /\ s \in DOMAIN rUsers[r]

\* C31: once the connection of a session in the users map of a room has
\* closed, the session is eventually removed from that users map.
C31_ClosedLeaves ==
    \A s \in {"A", "B"} : (Departed(s) /\ InUsers(s, "R1")) ~> ~InUsers(s, "R1")

\* the step is the room's handling of a Close command
HandlesClose(r) == RoomHandleCmd(r) /\ Head(rCmd[r]).op = "Close"

\* the step put a RoomClosed with the reason into the inbox of s
GotRoomClosed(s, reason) ==
    \E i \in 1..Len(last.out) :
        /\ last.out[i].to = s
        /\ last.out[i].msg.kind = "RoomClosed"
        /\ last.out[i].msg.reason = reason

\* the step is s telling its peer that its room is gone, s without a handle
ToldDisconnected(s, reason) ==
    /\ last.by = s
    /\ last.wire = <<W("room::disconnected", reason)>>
    /\ sRoom[s] = NoRoom

\* the step sent the ack of a CloseRoom of room r to the peer of s
CloseAcked(s, r) ==
    /\ sRoom[s].id = r
    /\ last'.by = s
    /\ last'.wire = <<W("room::close_ack", None)>>

\* C32: when a CloseRoom of a permitted session completes, the room has no
\* registry entry and its actor has terminated; every running session in the
\* users map when the room handled the Close is sent RoomClosed(ClosedByHost),
\* and a session that was sent it eventually clears its handle and sends
\* room::disconnected with that reason to its peer, unless its connection
\* closes first.
C32_CloseReachesAll ==
    /\ [][\A s \in {"A", "B"} :
            CloseAcked(s, "R1") => "R1" \notin reg' /\ rTask'["R1"] = "done"]_vars
    /\ [][HandlesClose("R1") =>
            \A s \in DOMAIN rUsers["R1"] :
                sLife[s] \in {"run", "exit"} => GotRoomClosed(s, "ClosedByHost")']_vars
    /\ \A s \in {"A", "B"} :
          GotRoomClosed(s, "ClosedByHost")
            ~> (ToldDisconnected(s, "ClosedByHost") \/ Departed(s))

C32_Witness ==
    /\ ToldDisconnected("B", "ClosedByHost")
    /\ "R1" \notin reg /\ rTask["R1"] = "done"
    /\ sPc["A"] = Idle /\ lock = None /\ sRoom["A"] = NoRoom
    /\ "ClosedByHost" \in rCloses["R1"]

\* C33: a CreateRoom of a session whose api permissions have host = FALSE
\* sends a client error to the peer and changes nothing else: no room task
\* is spawned, the registry and the room's inboxes stay as they are, the
\* session keeps its room handle and keeps running.
C33_CreateRefused ==
    [][\A s \in {"A", "B"} :
         (~sHost[s] /\ ClientCreateRoom(s, "", {"R1"})) =>
            /\ last'.by = s /\ last'.wire = <<NotPermittedToHost>>
            /\ UNCHANGED <<sLife, sRoom, sPc, sInbox, lock, reg, ctl, rTask, rRunning,
                           rUsers, rCmd, rReq>>
            /\ Ready(s)']_vars

C33_Witness ==
    /\ last.by = "B" /\ last.wire = <<NotPermittedToHost>>
    /\ "B" \in DOMAIN rUsers["R1"] /\ sRoom["B"].id = "R1"
    /\ ~sHost["B"] /\ Ready("B")

\* C34: a frame that is neither Binary, Text nor Close is ignored when the
\* connection receives it: nothing is sent and the connection and the format
\* of its channel stay as they are.
C34_OtherFramesIgnored ==
    [][\A frame \in Frames :
         (frame.kind = "Other" /\ RawRecvFrame(frame)) =>
            /\ chan'.sent = chan.sent /\ chan'.format = chan.format
            /\ conn'.open = conn.open /\ conn'.phase = conn.phase]_vars

\* the handler of room r for the head of one of its inboxes cannot finish: a
\* message of it is for session s, whose inbox has no slot left
BlockedOn(r, s) ==
    /\ rTask[r] = "alive"
    /\ \/ /\ rCmd[r] # <<>>
          /\ \E ord \in Orders(r, Head(rCmd[r]).sid) :
               Len(sInbox[s])
                 + Len(DeliveredTo(CmdResult(Core(r), Head(rCmd[r]), sLife, ord).st.out, s))
                 > MaxInbox
       \/ /\ rReq[r] # <<>>
          /\ \E ord \in Orders(r, Head(rReq[r]).sid) :
               Len(sInbox[s])
                 + Len(DeliveredTo(RequestResult(Core(r), Head(rReq[r]), sLife, ord).st.out, s))
                 > MaxInbox

\* session s is suspended until room r publishes a result, until the task of
\* r ends, or until a session that waits for the task of r frees the registry
WaitsFor(s, r) ==
    \/ sPc[s].k = "wait" /\ sRoom[s].id = r /\ ~sRoom[s].unseen
    \/ sPc[s].k = "closewait" /\ sPc[s].room = r
    \/ /\ sPc[s].k = "lock" /\ lock \in Sessions
       /\ sPc[lock].k = "closewait" /\ sPc[lock].room = r

\* C35: a room actor is never blocked on the full inbox of a session that is
\* itself waiting for that room.
C35_NoDeadlock ==
    \A r \in Rooms, s \in Sessions : ~(BlockedOn(r, s) /\ WaitsFor(s, r))

\* no command and no request that names session s, or that s issued, waits in
\* an inbox of room r
Settled(r, s) ==
    /\ \A i \in 1..Len(rCmd[r]) : rCmd[r][i].sid # s
    /\ \A i \in 1..Len(rReq[r]) : rReq[r][i].sid # s /\ rReq[r][i].from # s

\* C36: a session between two handlers that holds a handle to a running room
\* with nothing pending about that session is in the users map of the room.
C36_HandleMeansMember ==
    \A s \in {"A", "B"} :
        (Ready(s) /\ sRoom[s].id = "R1" /\ Alive("R1") /\ Settled("R1", s))
            => s \in DOMAIN rUsers["R1"]

\* the step is room r handling a PlaybackHost request that fails
HostFails(r) ==
    /\ RoomHandleRequest(r)
    /\ Head(rReq[r]).op = "PlaybackHost"
    /\ rRes'[r] = "err"

\* C37: a PlaybackHost request that fails leaves the playback of the room as
\* it was and sends no PlaybackStopped and no PlaybackDisconnected.
C37_FailedHostKeepsPlayback ==
    [][HostFails("R1") =>
         /\ rPlayback'["R1"] = rPlayback["R1"]
         /\ \A i \in 1..Len(last'.out) :
               last'.out[i].msg.kind
                  \notin {"PlaybackStopped", "PlaybackDisconnected"}]_vars

\* the RoomState messages the step delivered to session s, in order
StatesSentTo(s) ==
    SelectSeq(last'.out, LAMBDA d : d.to = s /\ d.msg.kind = "RoomState")

\* room r broadcasts the state for a Join and removes a user on the way
BroadcastRemoves(r) ==
    /\ TakesJoin(r)
    /\ rRunning'[r]
    /\ DOMAIN rUsers[r] \ DOMAIN rUsers'[r] # {}

\* C38: when the broadcast of a room state has removed a user whose inbox is
\* gone, the last RoomState each remaining user was sent is the state of the
\* room after the broadcast.
C38_LastStateCurrent ==
    [][\A r \in Rooms :
         BroadcastRemoves(r)
         => \A u \in DOMAIN rUsers'[r] :
              StatesSentTo(u) # <<>>
              => StatesSentTo(u)[Len(StatesSentTo(u))].msg.users = rUsers'[r]]_vars

\* C39: every room in the registry has a running actor: a room whose task
\* has ended has no registry entry.
C39_RegistryLive == \A r \in reg : rTask[r] = "alive"

\* the Sync handled is of a session whose offset Playback::sync negates
Normalizes == sync.asked /\ sync.id \in {"A"} \cup sync.subscribers

\* C40: whatever the clock offsets of the sessions, the room handles a Sync
\* without arithmetic overflow: the negation of the reporter's offset is an
\* offset again, and the handler does not panic.
C40_SyncNoOverflow ==
    Normalizes
    => /\ ~sync.panic
       /\ -TimeOffset(sync.life, sync.off, sync.id) \in Offsets

====
